---- MODULE Spec2Model ----
(***************************************************************************)
(* Type checker and name resolver of the scribble annotation language      *)
(* (src/unnamed/part_000, the module spec-lang/tc): semantic types, host   *)
(* type ingestion, scope lookup and the recursive checker tc with its type *)
(* cache, modelled as a state machine whose actions are top-level calls.   *)
(***************************************************************************)
EXTENDS Integers, Sequences, FiniteSets, TLC

VARIABLES
    expr,      \* the annotation AST handed to the checker (root SNode)
    site,      \* the typing context the driver built for the annotation
    typeMap,   \* TypeMap: node (path in expr) -> SType
    fsets,     \* heap of SFunctionSetType objects (mutable `definitions`)
    defSite,   \* SId.defSite stamps: node -> def-site
    outcome,   \* what the last top-level call did
    hist,      \* first type each node was given (history, for the cache laws)
    arg,       \* input of the last pure-function application
    ret        \* its result

vars == <<expr, site, typeMap, fsets, defSite, outcome, hist, arg, ret>>

(***************************************************************************)
(* A. Semantic types (spec-lang/ast/types, used throughout part_000)       *)
(***************************************************************************)
SBoolType == [t |-> "Bool"]
SAddressType(payable) == [t |-> "Address", payable |-> payable]
SIntType(nBits, signed) == [t |-> "Int", nBits |-> nBits, signed |-> signed]
SIntLiteralType == [t |-> "IntLiteral"]
SFixedBytes(size) == [t |-> "FixedBytes", size |-> size]
SBytes == [t |-> "Bytes"]
SString == [t |-> "String"]
SStringLiteralType == [t |-> "StringLiteral"]
\* size is optional in the source: sized = FALSE stands for `undefined`
SArrayType(elementT, sized, size) ==
    [t |-> "Array", elementT |-> elementT, sized |-> sized, size |-> size]
SMappingType(keyType, valueType) ==
    [t |-> "Mapping", keyType |-> keyType, valueType |-> valueType]
SUserDefinedType(name, definition) ==
    [t |-> "UserDefined", name |-> name, definition |-> definition]
STupleType(elements) == [t |-> "Tuple", elements |-> elements]
SPointer(to, location) == [t |-> "Pointer", to |-> to, location |-> location]
SFunctionType(parameters, returns, visibility, mutability) ==
    [t |-> "Function", parameters |-> parameters, returns |-> returns,
     visibility |-> visibility, mutability |-> mutability]
SBuiltinStructType(name) == [t |-> "BuiltinStruct", name |-> name]
SBuiltinTypeNameType(type) == [t |-> "BuiltinTypeName", type |-> type]
SUserDefinedTypeNameType(definition) ==
    [t |-> "UserDefinedTypeName", definition |-> definition]
\* the object lives in the heap fsets; the type value is a reference to it
SFunctionSetType(ref) == [t |-> "FunctionSet", ref |-> ref]

\* SPackedArrayType is the common base class of SBytes and SString
IsPackedArray(type) == type.t \in {"Bytes", "String"}

DataLocations == {"storage", "memory", "calldata"}

(***************************************************************************)
(* Strings as character sequences, for the regular expressions of the      *)
(* source.  TLC keeps strings atomic, so the names the model uses are      *)
(* spelled out here.                                                       *)
(***************************************************************************)
CharTable ==
    [bool |-> <<"b","o","o","l">>,
     address |-> <<"a","d","d","r","e","s","s">>,
     uint |-> <<"u","i","n","t">>,
     int |-> <<"i","n","t">>,
     uint8 |-> <<"u","i","n","t","8">>,
     uint16 |-> <<"u","i","n","t","1","6">>,
     uint32 |-> <<"u","i","n","t","3","2">>,
     uint64 |-> <<"u","i","n","t","6","4">>,
     uint256 |-> <<"u","i","n","t","2","5","6">>,
     int8 |-> <<"i","n","t","8">>,
     int16 |-> <<"i","n","t","1","6">>,
     int32 |-> <<"i","n","t","3","2">>,
     int64 |-> <<"i","n","t","6","4">>,
     int128 |-> <<"i","n","t","1","2","8">>,
     int256 |-> <<"i","n","t","2","5","6">>,
     byte |-> <<"b","y","t","e">>,
     bytes |-> <<"b","y","t","e","s">>,
     bytes4 |-> <<"b","y","t","e","s","4">>,
     bytes32 |-> <<"b","y","t","e","s","3","2">>,
     string |-> <<"s","t","r","i","n","g">>,
     int24 |-> <<"i","n","t","2","4">>,
     bytes3 |-> <<"b","y","t","e","s","3">>,
     int23 |-> <<"i","n","t","2","3">>,
     int264 |-> <<"i","n","t","2","6","4">>,
     uint255 |-> <<"u","i","n","t","2","5","5">>,
     uint08 |-> <<"u","i","n","t","0","8">>,
     bytes0 |-> <<"b","y","t","e","s","0">>,
     bytes01 |-> <<"b","y","t","e","s","0","1">>,
     bytes33 |-> <<"b","y","t","e","s","3","3">>,
     addresspayable |-> <<"a","d","d","r","e","s","s","p","a","y","a","b","l","e">>]
    @@ ("address payable" :>
            <<"a","d","d","r","e","s","s"," ","p","a","y","a","b","l","e">>)

\* a name outside the table is an ordinary identifier: one opaque token
Chars(name) == IF name \in DOMAIN CharTable THEN CharTable[name] ELSE <<name>>

DigitChars == {"0","1","2","3","4","5","6","7","8","9"}

DigitVal(c) ==
    CASE c = "0" -> 0 [] c = "1" -> 1 [] c = "2" -> 2 [] c = "3" -> 3
      [] c = "4" -> 4 [] c = "5" -> 5 [] c = "6" -> 6 [] c = "7" -> 7
      [] c = "8" -> 8 [] c = "9" -> 9

AllDigits(cs) == \A i \in 1..Len(cs) : cs[i] \in DigitChars

RECURSIVE parseInt(_)
parseInt(cs) ==
    IF cs = <<>> THEN 0
    ELSE parseInt(SubSeq(cs, 1, Len(cs) - 1)) * 10 + DigitVal(cs[Len(cs)])

StartsWith(cs, pre) == Len(cs) >= Len(pre) /\ SubSeq(cs, 1, Len(pre)) = pre
After(cs, pre) == SubSeq(cs, Len(pre) + 1, Len(cs))

(***************************************************************************)
(* The host AST (solc-typed-ast), as far as the checker queries it         *)
(***************************************************************************)
ElementaryTypeName(name, stateMutability) ==
    [k |-> "ElementaryTypeName", name |-> name, stateMutability |-> stateMutability]
Elem(name) == ElementaryTypeName(name, "nonpayable")
\* vLength: absent, a number literal, or some other expression
NoLength == [present |-> FALSE, literal |-> FALSE, value |-> <<>>]
LiteralLength(value) == [present |-> TRUE, literal |-> TRUE, value |-> value]
ExprLength == [present |-> TRUE, literal |-> FALSE, value |-> <<>>]
ArrayTypeName(vBaseType, vLength) ==
    [k |-> "ArrayTypeName", vBaseType |-> vBaseType, vLength |-> vLength]
UserDefinedTypeName(def) == [k |-> "UserDefinedTypeName", vReferencedDeclaration |-> def]
MappingTypeName(vKeyType, vValueType) ==
    [k |-> "Mapping", vKeyType |-> vKeyType, vValueType |-> vValueType]
FunctionTypeName(params, returns, visibility, stateMutability) ==
    [k |-> "FunctionTypeName", vParameterTypes |-> params, vReturnParameterTypes |-> returns,
     visibility |-> visibility, stateMutability |-> stateMutability]

ContractScope(name) == [k |-> "ContractDefinition", name |-> name, visibility |-> ""]
FunctionScope(name, visibility) ==
    [k |-> "FunctionDefinition", name |-> name, visibility |-> visibility]
StructScope(name) == [k |-> "StructDefinition", name |-> name, visibility |-> ""]
UnitScope == [k |-> "SourceUnit", name |-> "", visibility |-> ""]

\* VariableDeclaration: the fields getVarLocation and the lookups read
VariableDeclaration(name, vType, storageLocation, vScope, visibility) ==
    [name |-> name, vType |-> vType, storageLocation |-> storageLocation,
     vScope |-> vScope, visibility |-> visibility, inStatement |-> FALSE]

\* user-defined type declarations of the host program: id -> declaration
UserDefs ==
    [GlobalEnum |-> [kind |-> "enum", name |-> "GlobalEnum", vScope |-> UnitScope],
     gasleft |-> [kind |-> "enum", name |-> "gasleft", vScope |-> UnitScope],
     Lib |-> [kind |-> "contract", name |-> "Lib", vScope |-> UnitScope],
     Lib2 |-> [kind |-> "contract", name |-> "Lib2", vScope |-> UnitScope],
     Lib3 |-> [kind |-> "contract", name |-> "Lib3", vScope |-> UnitScope],
     IFace |-> [kind |-> "contract", name |-> "IFace", vScope |-> UnitScope],
     Tok |-> [kind |-> "contract", name |-> "Tok", vScope |-> UnitScope],
     Boo |-> [kind |-> "contract", name |-> "Boo", vScope |-> UnitScope],
     Base |-> [kind |-> "contract", name |-> "Base", vScope |-> UnitScope],
     Foo |-> [kind |-> "contract", name |-> "Foo", vScope |-> UnitScope],
     BooEnum |-> [kind |-> "enum", name |-> "BooEnum", vScope |-> ContractScope("Boo")],
     FooEnum |-> [kind |-> "enum", name |-> "FooEnum", vScope |-> ContractScope("Foo")],
     SFoo |-> [kind |-> "struct", name |-> "SFoo", vScope |-> ContractScope("Foo")],
     SMoo |-> [kind |-> "struct", name |-> "SMoo", vScope |-> ContractScope("Foo")],
     Lib4 |-> [kind |-> "contract", name |-> "Lib4", vScope |-> UnitScope],
     BaseS |-> [kind |-> "struct", name |-> "BaseS", vScope |-> ContractScope("Base")]]

DefKind(def) == UserDefs[def].kind

(***************************************************************************)
(* B. Host type ingestion                                                  *)
(***************************************************************************)
\* `throw new Error(...)` and failed asserts of the ingestion functions
Thrown(what) == [t |-> "Error", what |-> what]
IsThrown(type) == type.t = "Error"

getUserDefinedTypeFQName(def) ==
    IF UserDefs[def].vScope.k = "ContractDefinition"
    THEN UserDefs[def].vScope.name \o "." \o UserDefs[def].name
    ELSE UserDefs[def].name

\* /^int_const *([0-9]*)$/
MatchIntLiteralRE(cs) ==
    LET pre == <<"i","n","t","_","c","o","n","s","t">>
    IN  /\ StartsWith(cs, pre)
        /\ \E i \in 0..(Len(cs) - Len(pre)) :
              /\ \A j \in 1..i : cs[Len(pre) + j] = " "
              /\ AllDigits(SubSeq(cs, Len(pre) + i + 1, Len(cs)))

\* /^address *(payable)?$/
MatchAddressRE(cs) ==
    LET pre == <<"a","d","d","r","e","s","s">>
        pay == <<"p","a","y","a","b","l","e">>
    IN  /\ StartsWith(cs, pre)
        /\ \E i \in 0..(Len(cs) - Len(pre)) :
              /\ \A j \in 1..i : cs[Len(pre) + j] = " "
              /\ SubSeq(cs, Len(pre) + i + 1, Len(cs)) \in {<<>>, pay}

\* /^(u?)int([0-9]*)$/ : matched, group 1, group 2
MatchIntTypeRE(cs) ==
    LET u == StartsWith(cs, <<"u">>)
        rest == IF u THEN Tail(cs) ELSE cs
        ok == StartsWith(rest, <<"i","n","t">>) /\ AllDigits(After(rest, <<"i","n","t">>))
    IN  [m |-> ok, g1 |-> IF u THEN "u" ELSE "",
         g2 |-> IF ok THEN After(rest, <<"i","n","t">>) ELSE <<>>]

\* /^bytes([0-9]+)$/ : matched, group 1
MatchBytesRE(cs) ==
    LET pre == <<"b","y","t","e","s">>
        ok == StartsWith(cs, pre) /\ Len(cs) > Len(pre) /\ AllDigits(After(cs, pre))
    IN  [m |-> ok, g1 |-> IF ok THEN After(cs, pre) ELSE <<>>]

\* const name = value: the value is computed once and the rest reads it
With(value, Rest(_)) == Rest(value)

RECURSIVE astTypeNameToSType(_)
RECURSIVE specializeType(_, _)
RECURSIVE astVarToSType(_, _, _)

\* first thrown value among the types of a sequence, if any
FirstThrown(types) ==
    IF \E i \in 1..Len(types) : IsThrown(types[i])
    THEN types[CHOOSE i \in 1..Len(types) :
                 IsThrown(types[i]) /\ \A j \in 1..(i - 1) : ~IsThrown(types[j])]
    ELSE SBoolType

\* the function-parameter default consulted before the caller's base location
getVarLocation_scopeFirst(astV, hasBaseLoc, baseLoc) ==
    IF astV.storageLocation # "default" THEN astV.storageLocation
    ELSE IF astV.vScope.k = "ContractDefinition" THEN "storage"
    ELSE IF astV.vScope.k = "FunctionDefinition"
         THEN IF astV.inStatement THEN "assert"
              ELSE IF astV.vScope.visibility = "external" THEN "calldata" ELSE "memory"
    ELSE IF hasBaseLoc THEN baseLoc
    ELSE "throw"

getVarLocation(astV, hasBaseLoc, baseLoc) ==
    IF astV.storageLocation # "default" THEN astV.storageLocation
    ELSE IF astV.vScope.k = "ContractDefinition" THEN "storage"
    ELSE IF hasBaseLoc THEN baseLoc
    ELSE IF astV.vScope.k = "FunctionDefinition"
         THEN IF astV.inStatement THEN "assert"
              ELSE IF astV.vScope.visibility = "external" THEN "calldata" ELSE "memory"
    ELSE "throw"

astTypeNameToSType(astT) ==
    IF astT.k = "ElementaryTypeName" THEN
        With(Chars(astT.name), LAMBDA name :
        With(MatchIntTypeRE(name), LAMBDA mi :
        With(MatchBytesRE(name), LAMBDA mb :
            IF astT.name = "bool" THEN SBoolType
            ELSE IF MatchAddressRE(name) THEN SAddressType(astT.stateMutability = "payable")
            ELSE IF MatchIntLiteralRE(name) THEN SIntLiteralType
            ELSE IF mi.m THEN SIntType(IF mi.g2 = <<>> THEN 256 ELSE parseInt(mi.g2), mi.g1 # "u")
            ELSE IF astT.name = "byte" \/ mb.m THEN SFixedBytes(IF mb.m THEN parseInt(mb.g1) ELSE 1)
            ELSE IF astT.name = "bytes" THEN SBytes
            ELSE IF astT.name = "string" THEN SString
            ELSE Thrown("NYI converting elementary AST Type"))))
    ELSE IF astT.k = "ArrayTypeName" THEN
        With(astTypeNameToSType(astT.vBaseType), LAMBDA elT :
            IF IsThrown(elT) THEN elT
            ELSE IF astT.vLength.present /\ ~astT.vLength.literal
                 THEN Thrown("NYI non-literal array type sizes")
            ELSE IF astT.vLength.present
                 THEN SArrayType(elT, TRUE, parseInt(astT.vLength.value))
            ELSE SArrayType(elT, FALSE, 0))
    ELSE IF astT.k = "UserDefinedTypeName" THEN
        IF astT.vReferencedDeclaration \in DOMAIN UserDefs
        THEN SUserDefinedType(getUserDefinedTypeFQName(astT.vReferencedDeclaration),
                              astT.vReferencedDeclaration)
        ELSE Thrown("NYI typecheckin of user-defined type")
    ELSE IF astT.k = "FunctionTypeName" THEN
        With([i \in 1..Len(astT.vParameterTypes) |->
                 astVarToSType(astT.vParameterTypes[i], FALSE, "")], LAMBDA parameters :
        With([i \in 1..Len(astT.vReturnParameterTypes) |->
                 astVarToSType(astT.vReturnParameterTypes[i], FALSE, "")], LAMBDA returns :
            IF IsThrown(FirstThrown(parameters \o returns))
            THEN FirstThrown(parameters \o returns)
            ELSE SFunctionType(parameters, returns, astT.visibility, astT.stateMutability)))
    ELSE IF astT.k = "Mapping" THEN
        With(astTypeNameToSType(astT.vKeyType), LAMBDA keyT :
        With(astTypeNameToSType(astT.vValueType), LAMBDA valueT :
            IF IsThrown(keyT) THEN keyT
            ELSE IF IsThrown(valueT) THEN valueT
            ELSE SMappingType(keyT, valueT)))
    ELSE Thrown("NYI converting AST Type to SType")

specializeType(type, toLocation) ==
    IF type.t = "Pointer" THEN Thrown("Unexpected pointer type in concretization")
    ELSE IF type.t = "Tuple" THEN Thrown("Unexpected tuple type in concretization")
    ELSE IF IsPackedArray(type) THEN SPointer(type, toLocation)
    ELSE IF type.t = "Array" THEN
        With(specializeType(type.elementT, toLocation), LAMBDA concreteElT :
            IF IsThrown(concreteElT) THEN concreteElT
            ELSE SPointer(SArrayType(concreteElT, type.sized, type.size), toLocation))
    ELSE IF type.t = "UserDefined" THEN
        IF DefKind(type.definition) = "contract" THEN SPointer(type, "storage")
        ELSE IF DefKind(type.definition) = "struct" THEN SPointer(type, toLocation)
        ELSE type
    ELSE IF type.t = "Mapping" THEN
        With(specializeType(type.keyType, "memory"), LAMBDA concreteKeyT :
        With(specializeType(type.valueType, "storage"), LAMBDA concreteValueT :
            IF IsThrown(concreteKeyT) THEN concreteKeyT
            ELSE IF IsThrown(concreteValueT) THEN concreteValueT
            ELSE SPointer(SMappingType(concreteKeyT, concreteValueT), "storage")))
    ELSE type

RECURSIVE despecializeType(_)
despecializeType(type) ==
    IF type.t = "Pointer" THEN type.to
    ELSE IF type.t = "Array"
         THEN SArrayType(despecializeType(type.elementT), type.sized, type.size)
    ELSE IF type.t = "Mapping"
         THEN SMappingType(despecializeType(type.keyType), despecializeType(type.valueType))
    ELSE type

astVarToSType(astV, hasBaseLoc, baseLoc) ==
    With(astTypeNameToSType(astV.vType), LAMBDA type :
    With(getVarLocation(astV, hasBaseLoc, baseLoc), LAMBDA loc :
        IF IsThrown(type) THEN type
        ELSE IF loc \notin DataLocations THEN Thrown(loc)
        ELSE specializeType(type, loc)))

\* an index test that lets booleans through
isInty_orBool(type) == type.t \in {"Int", "IntLiteral", "Bool"}
isInty(type) == type.t \in {"Int", "IntLiteral"}

(***************************************************************************)
(* The host program the annotations are checked against: the contracts of  *)
(* test/unit/tc.spec.ts, with a base contract, overloads and shadowing     *)
(* declarations added.                                                     *)
(***************************************************************************)
StateVar(contract, name, vType, visibility) ==
    VariableDeclaration(name, vType, "default", ContractScope(contract), visibility)
Param(fun, fvis, name, vType, loc) ==
    VariableDeclaration(name, vType, loc, FunctionScope(fun, fvis), "internal")
Field(struct, name, vType) ==
    VariableDeclaration(name, vType, "default", StructScope(struct), "internal")

TUint == Elem("uint")
TUint8Arr2 == ArrayTypeName(ArrayTypeName(Elem("uint8"), NoLength), NoLength)

FunctionDefinition(id, name, vScope, visibility, params, returns) ==
    [id |-> id, name |-> name, vScope |-> vScope, visibility |-> visibility,
     stateMutability |-> "nonpayable", vParameters |-> params, vReturnParameters |-> returns]

FunDefs ==
    [Lib_ladd |-> FunctionDefinition("Lib_ladd", "ladd", "Lib", "public",
        <<Param("ladd", "public", "a", Elem("uint32"), "default"),
          Param("ladd", "public", "b", Elem("uint32"), "default")>>,
        <<Param("ladd", "public", "", Elem("uint32"), "default")>>),
     Lib2_foo |-> FunctionDefinition("Lib2_foo", "foo", "Lib2", "public",
        <<Param("foo", "public", "x", Elem("int128"), "default")>>,
        <<Param("foo", "public", "", Elem("bool"), "default")>>),
     Lib3_len |-> FunctionDefinition("Lib3_len", "len", "Lib3", "public",
        <<Param("len", "public", "s", Elem("string"), "memory")>>,
        <<Param("len", "public", "", TUint, "default")>>),
     Lib4_nlen |-> FunctionDefinition("Lib4_nlen", "nlen", "Lib4", "public",
        <<Param("nlen", "public", "a", TUint8Arr2, "memory")>>,
        <<Param("nlen", "public", "", TUint, "default")>>),
     Lib4_alen |-> FunctionDefinition("Lib4_alen", "alen", "Lib4", "public",
        <<Param("alen", "public", "a", ArrayTypeName(TUint, NoLength), "memory")>>,
        <<Param("alen", "public", "", TUint, "default")>>),
     IFace_imoo |-> FunctionDefinition("IFace_imoo", "imoo", "IFace", "external",
        <<Param("imoo", "external", "d", Elem("int8"), "default"),
          Param("imoo", "external", "e", Elem("int16"), "default")>>,
        <<Param("imoo", "external", "", Elem("address"), "default"),
          Param("imoo", "external", "", Elem("string"), "memory")>>),
     Boo_foo |-> FunctionDefinition("Boo_foo", "foo", "Boo", "public",
        <<Param("foo", "public", "x", TUint, "default")>>,
        <<Param("foo", "public", "", TUint, "default")>>),
     Base_ov |-> FunctionDefinition("Base_ov", "ov", "Base", "public",
        <<Param("ov", "public", "b", Elem("bool"), "default")>>,
        <<Param("ov", "public", "", Elem("bool"), "default")>>),
     Foo_add |-> FunctionDefinition("Foo_add", "add", "Foo", "public",
        <<Param("add", "public", "x", Elem("int8"), "default"),
          Param("add", "public", "y", Elem("uint64"), "default")>>,
        <<Param("add", "public", "add", Elem("uint64"), "default")>>),
     Foo_foo |-> FunctionDefinition("Foo_foo", "foo", "Foo", "public",
        <<Param("foo", "public", "mUArr", ArrayTypeName(TUint, NoLength), "memory"),
          Param("foo", "public", "mBy", Elem("bytes"), "memory"),
          Param("foo", "public", "mS", Elem("string"), "memory")>>,
        <<>>),
     \* an overload without return values
     Foo_foo32 |-> FunctionDefinition("Foo_foo32", "foo", "Foo", "public",
        <<Param("foo", "public", "u", Elem("uint32"), "default")>>,
        <<>>),
     Foo_idPair |-> FunctionDefinition("Foo_idPair", "idPair", "Foo", "public",
        <<Param("idPair", "public", "x", TUint, "default"),
          Param("idPair", "public", "y", TUint, "default")>>,
        <<Param("idPair", "public", "", TUint, "default"),
          Param("idPair", "public", "", TUint, "default")>>),
     Foo_ov8 |-> FunctionDefinition("Foo_ov8", "ov", "Foo", "public",
        <<Param("ov", "public", "a", Elem("uint8"), "default")>>,
        <<Param("ov", "public", "", Elem("uint8"), "default")>>),
     Foo_ov16 |-> FunctionDefinition("Foo_ov16", "ov", "Foo", "public",
        <<Param("ov", "public", "a", Elem("uint16"), "default")>>,
        <<Param("ov", "public", "", Elem("uint16"), "default")>>),
     \* parameters that shadow a type, a builtin symbol and a return parameter
     Foo_sh |-> FunctionDefinition("Foo_sh", "sh", "Foo", "public",
        <<Param("sh", "public", "GlobalEnum", Elem("uint8"), "default"),
          Param("sh", "public", "now", Elem("bool"), "default"),
          Param("sh", "public", "x", Elem("int16"), "default")>>,
        <<Param("sh", "public", "x", Elem("int32"), "default"),
          Param("sh", "public", "r", Elem("int64"), "default")>>),
     Foo_ext |-> FunctionDefinition("Foo_ext", "ext", "Foo", "external",
        <<Param("ext", "external", "eBy", Elem("bytes"), "default"),
          Param("ext", "external", "eArr", TUint8Arr2, "default")>>,
        <<Param("ext", "external", "eS", Elem("string"), "memory")>>),
     \* a function with the name of a top-level contract
     Foo_Tok |-> FunctionDefinition("Foo_Tok", "Tok", "Foo", "public",
        <<Param("Tok", "public", "t", Elem("uint8"), "default")>>,
        <<Param("Tok", "public", "", Elem("uint8"), "default")>>),
     Foo_getS |-> FunctionDefinition("Foo_getS", "getS", "Foo", "public",
        <<>>,
        <<Param("getS", "public", "", UserDefinedTypeName("SFoo"), "memory")>>)]

UsingFor(hasType, vTypeName, vLibraryName) ==
    [hasType |-> hasType, vTypeName |-> vTypeName, vLibraryName |-> vLibraryName]

ContractDefinition(name, bases, stateVars, structs, enums, functions, usingFor) ==
    [name |-> name, vLinearizedBaseContracts |-> bases, vStateVariables |-> stateVars,
     vStructs |-> structs, vEnums |-> enums, vFunctions |-> functions,
     vUsingForDirectives |-> usingFor]

Contracts ==
    [Lib |-> ContractDefinition("Lib", <<"Lib">>, <<>>, <<>>, <<>>, <<"Lib_ladd">>, <<>>),
     Lib2 |-> ContractDefinition("Lib2", <<"Lib2">>, <<>>, <<>>, <<>>, <<"Lib2_foo">>, <<>>),
     Lib3 |-> ContractDefinition("Lib3", <<"Lib3">>, <<>>, <<>>, <<>>, <<"Lib3_len">>, <<>>),
     Lib4 |-> ContractDefinition("Lib4", <<"Lib4">>, <<>>, <<>>, <<>>,
        <<"Lib4_nlen", "Lib4_alen">>, <<>>),
     IFace |-> ContractDefinition("IFace", <<"IFace">>, <<>>, <<>>, <<>>, <<"IFace_imoo">>, <<>>),
     Tok |-> ContractDefinition("Tok", <<"Tok">>, <<>>, <<>>, <<>>, <<>>, <<>>),
     Boo |-> ContractDefinition("Boo", <<"Boo">>,
        <<StateVar("Boo", "a", TUint, "internal"),
          StateVar("Boo", "s", Elem("int8"), "public"),
          StateVar("Boo", "str", Elem("string"), "internal"),
          StateVar("Boo", "e", UserDefinedTypeName("BooEnum"), "public"),
          StateVar("Boo", "arr", ArrayTypeName(TUint, NoLength), "public")>>,
        <<>>, <<"BooEnum">>, <<"Boo_foo">>, <<>>),
     Base |-> ContractDefinition("Base", <<"Base">>,
        <<StateVar("Base", "sV", Elem("int8"), "internal"),
          StateVar("Base", "bV", Elem("bool"), "internal"),
          StateVar("Base", "bP", Elem("bool"), "public")>>,
        <<"BaseS">>, <<>>, <<"Base_ov">>, <<>>),
     Foo |-> ContractDefinition("Foo", <<"Foo", "Base">>,
        <<StateVar("Foo", "sV", TUint, "internal"),
          StateVar("Foo", "sV1", Elem("int128"), "internal"),
          StateVar("Foo", "sA", Elem("address"), "internal"),
          StateVar("Foo", "sA1", ElementaryTypeName("address", "payable"), "internal"),
          StateVar("Foo", "sB", Elem("bool"), "internal"),
          StateVar("Foo", "sS", Elem("string"), "internal"),
          StateVar("Foo", "sBy", Elem("bytes"), "internal"),
          StateVar("Foo", "sUArr", ArrayTypeName(TUint, NoLength), "internal"),
          StateVar("Foo", "sNestedArr", TUint8Arr2, "internal"),
          StateVar("Foo", "sFB32", Elem("bytes32"), "internal"),
          StateVar("Foo", "u32a", Elem("uint32"), "internal"),
          StateVar("Foo", "sFoo", UserDefinedTypeName("SFoo"), "internal"),
          StateVar("Foo", "sBoo", UserDefinedTypeName("Boo"), "internal"),
          StateVar("Foo", "sE", UserDefinedTypeName("FooEnum"), "internal"),
          StateVar("Foo", "sM", MappingTypeName(Elem("uint32"), Elem("int64")), "internal"),
          StateVar("Foo", "sMS",
                   MappingTypeName(Elem("string"), ArrayTypeName(TUint, NoLength)), "internal"),
          StateVar("Foo", "sha256", Elem("uint16"), "internal")>>,
        <<"SFoo", "SMoo">>, <<"FooEnum">>,
        <<"Foo_add", "Foo_foo", "Foo_foo32", "Foo_idPair", "Foo_ov8", "Foo_ov16", "Foo_sh",
          "Foo_ext", "Foo_Tok", "Foo_getS">>,
        <<UsingFor(TRUE, Elem("uint32"), "Lib"),
          UsingFor(FALSE, Elem("bool"), "Lib2"),
          UsingFor(TRUE, Elem("string"), "Lib3"),
          UsingFor(TRUE, TUint8Arr2, "Lib4"),
          UsingFor(TRUE, ArrayTypeName(TUint, NoLength), "Lib4")>>)]

\* the one source unit of the program
SourceUnits ==
    <<[vStructs |-> <<>>, vEnums |-> <<"GlobalEnum", "gasleft">>,
       vContracts |-> <<"Lib", "Lib2", "Lib3", "Lib4", "IFace", "Tok", "Boo", "Base", "Foo">>]>>

StructMembers ==
    [SFoo |-> <<Field("SFoo", "x", TUint), Field("SFoo", "a", Elem("address")),
                Field("SFoo", "s", Elem("string"))>>,
     SMoo |-> <<Field("SMoo", "foo", UserDefinedTypeName("SFoo"))>>,
     BaseS |-> <<Field("BaseS", "q", Elem("uint8"))>>]

EnumMembers ==
    [GlobalEnum |-> <<"A", "B", "C">>, gasleft |-> <<"L">>,
     BooEnum |-> <<"G", "H", "I">>, FooEnum |-> <<"D", "E", "F">>]

(***************************************************************************)
(* Builtins registry (spec-lang/tc/builtins), as the unit tests pin it     *)
(***************************************************************************)
TUint256 == SIntType(256, FALSE)
TBytesMemory == SPointer(SBytes, "memory")
BuiltinFun(parameters, returns, mutability) ==
    SFunctionType(parameters, returns, "default", mutability)

BuiltinSymbols ==
    [block |-> SBuiltinStructType("block"),
     msg |-> SBuiltinStructType("msg"),
     tx |-> SBuiltinStructType("tx"),
     blockhash |-> BuiltinFun(<<TUint256>>, <<SFixedBytes(32)>>, "view"),
     gasleft |-> BuiltinFun(<<>>, <<TUint256>>, "view"),
     now |-> BuiltinFun(<<>>, <<TUint256>>, "view"),
     addmod |-> BuiltinFun(<<TUint256, TUint256, TUint256>>, <<TUint256>>, "pure"),
     mulmod |-> BuiltinFun(<<TUint256, TUint256, TUint256>>, <<TUint256>>, "pure"),
     keccak256 |-> BuiltinFun(<<TBytesMemory>>, <<SFixedBytes(32)>>, "pure"),
     sha256 |-> BuiltinFun(<<TBytesMemory>>, <<SFixedBytes(32)>>, "pure"),
     ripemd160 |-> BuiltinFun(<<TBytesMemory>>, <<SFixedBytes(20)>>, "pure"),
     ecrecover |-> BuiltinFun(<<SFixedBytes(32), SIntType(8, FALSE), SFixedBytes(32),
                                SFixedBytes(32)>>, <<SAddressType(FALSE)>>, "pure")]

BuiltinStructMembers ==
    [block |-> [coinbase |-> SAddressType(TRUE), difficulty |-> TUint256,
                gaslimit |-> TUint256, number |-> TUint256, timestamp |-> TUint256],
     msg |-> [data |-> SPointer(SBytes, "calldata"), sender |-> SAddressType(TRUE),
              sig |-> SFixedBytes(4), value |-> TUint256],
     tx |-> [gasprice |-> TUint256, origin |-> SAddressType(TRUE)]]

BuiltinAddressMembers ==
    [balance |-> TUint256,
     staticcall |-> BuiltinFun(<<TBytesMemory>>, <<SBoolType, TBytesMemory>>, "view")]

(***************************************************************************)
(* The annotation AST (spec-lang/ast).  A node is identified by its path   *)
(* from the root: SNode objects are compared by identity, never by shape.  *)
(***************************************************************************)
SNumber(neg) == [k |-> "SNumber", neg |-> neg]
SBooleanLiteral == [k |-> "SBooleanLiteral"]
SStringLiteral == [k |-> "SStringLiteral"]
SHexLiteral == [k |-> "SHexLiteral"]
SAddressLiteral == [k |-> "SAddressLiteral"]
SId(name) == [k |-> "SId", name |-> name]
SResult == [k |-> "SResult"]
SUnaryOperation(op, subexp) == [k |-> "SUnaryOperation", op |-> op, subexp |-> subexp]
SBinaryOperation(left, op, right) ==
    [k |-> "SBinaryOperation", op |-> op, left |-> left, right |-> right]
SConditional(condition, trueExp, falseExp) ==
    [k |-> "SConditional", condition |-> condition, trueExp |-> trueExp,
     falseExp |-> falseExp]
SIndexAccess(base, index) == [k |-> "SIndexAccess", base |-> base, index |-> index]
SMemberAccess(base, member) == [k |-> "SMemberAccess", base |-> base, member |-> member]
SLet(lhs, rhs, body) == [k |-> "SLet", lhs |-> lhs, rhs |-> rhs, body |-> body]
SFunctionCall(callee, args) == [k |-> "SFunctionCall", callee |-> callee, args |-> args]

\* getChildren(): the SNode fields of a node, in field order
getChildren(e) ==
    CASE e.k = "SUnaryOperation" -> <<e.subexp>>
      [] e.k = "SBinaryOperation" -> <<e.left, e.right>>
      [] e.k = "SConditional" -> <<e.condition, e.trueExp, e.falseExp>>
      [] e.k = "SIndexAccess" -> <<e.base, e.index>>
      [] e.k = "SMemberAccess" -> <<e.base>>
      [] e.k = "SLet" -> <<e.rhs, e.body>>
      [] e.k = "SFunctionCall" -> <<e.callee>> \o e.args
      [] OTHER -> <<>>

RECURSIVE NodeAt(_, _)
NodeAt(root, path) ==
    IF path = <<>> THEN root ELSE NodeAt(getChildren(root)[Head(path)], Tail(path))

RECURSIVE Paths(_)
Paths(root) ==
    {<<>>} \cup UNION {{<<i>> \o p : p \in Paths(getChildren(root)[i])} :
                          i \in 1..Len(getChildren(root))}

(***************************************************************************)
(* C. Scopes and name resolution                                           *)
(***************************************************************************)
UnitsScope == [k |-> "units"]
ContractCtx(name) == [k |-> "contract", name |-> name]
FunctionCtx(id) == [k |-> "function", id |-> id]
LetCtx(node) == [k |-> "let", node |-> node]

NotFound == [found |-> FALSE]
FoundDecl(decl) == [found |-> TRUE, k |-> "decl", decl |-> decl]
FoundLet(node, bindingIdx) ==
    [found |-> TRUE, k |-> "let", node |-> node, bindingIdx |-> bindingIdx]

\* first element of a sequence that satisfies a test, as a one-or-zero element sequence
FirstNamed(decls, name) == SelectSeq(decls, LAMBDA d : d.name = name)

RECURSIVE Flatten(_)
Flatten(seqs) == IF seqs = <<>> THEN <<>> ELSE Head(seqs) \o Flatten(Tail(seqs))

\* the state variables of every base, in linearization order
BaseStateVars(contract) ==
    With(Contracts[contract].vLinearizedBaseContracts, LAMBDA bases :
        Flatten([i \in 1..Len(bases) |-> Contracts[bases[i]].vStateVariables]))

\* what one scope of the stack answers: a definition, or nothing
lookupInScope(name, scope, root) ==
    IF scope.k = "function" THEN
        With(FunDefs[scope.id], LAMBDA fun :
        With(FirstNamed(fun.vParameters \o fun.vReturnParameters, name), LAMBDA hits :
            IF hits # <<>> THEN FoundDecl(hits[1]) ELSE NotFound))
    ELSE IF scope.k = "contract" THEN
        With(FirstNamed(BaseStateVars(scope.name), name), LAMBDA hits :
            IF hits # <<>> THEN FoundDecl(hits[1]) ELSE NotFound)
    ELSE IF scope.k = "units" THEN NotFound
    ELSE
        With(NodeAt(root, scope.node).lhs, LAMBDA lhs :
        With({i \in 1..Len(lhs) : lhs[i] = name}, LAMBDA idxs :
            IF idxs # {}
            THEN FoundLet(scope.node, CHOOSE i \in idxs : \A j \in idxs : i <= j)
            ELSE NotFound))

\* the walk of the scope stack from scope i down to the outermost one
RECURSIVE lookupVarDefFrom(_, _, _, _)
lookupVarDefFrom(name, ctx, i, root) ==
    IF i < 1 THEN NotFound
    ELSE IF ctx[i].k = "units" THEN NotFound
    ELSE With(lookupInScope(name, ctx[i], root), LAMBDA def :
            IF def.found THEN def ELSE lookupVarDefFrom(name, ctx, i - 1, root))

\* a lookup that answers from the outermost scope that knows the name
lookupVarDef_outermostFirst(name, ctx, root) ==
    LET hits == {i \in 1..Len(ctx) : lookupInScope(name, ctx[i], root).found}
    IN  IF hits = {} THEN NotFound
        ELSE lookupInScope(name, ctx[CHOOSE i \in hits : \A j \in hits : i <= j], root)

lookupVarDef(name, ctx, root) == lookupVarDefFrom(name, ctx, Len(ctx), root)

\* structs then enums of every base of a contract
BaseTypeDefs(contract) ==
    With(Contracts[contract].vLinearizedBaseContracts, LAMBDA bases :
        Flatten([i \in 1..Len(bases) |->
            With(Contracts[bases[i]], LAMBDA base : base.vStructs \o base.vEnums)]))

UnitTypeDefs ==
    Flatten([i \in 1..Len(SourceUnits) |-> SourceUnits[i].vStructs \o SourceUnits[i].vEnums])
    \o Flatten([i \in 1..Len(SourceUnits) |-> SourceUnits[i].vContracts])

resolveInScope(scope, name) ==
    IF scope.k = "contract"
    THEN SelectSeq(BaseTypeDefs(scope.name), LAMBDA d : UserDefs[d].name = name)
    ELSE IF scope.k = "units"
    THEN SelectSeq(UnitTypeDefs, LAMBDA d : UserDefs[d].name = name)
    ELSE <<>>

\* the definition found, as a one-or-zero element sequence
RECURSIVE resolveTypeDefFrom(_, _, _)
resolveTypeDefFrom(ctx, name, i) ==
    IF i < 1 THEN <<>>
    ELSE With(resolveInScope(ctx[i], name), LAMBDA defs :
            IF defs # <<>> THEN <<defs[1]>> ELSE resolveTypeDefFrom(ctx, name, i - 1))

resolveTypeDef(ctx, name) == resolveTypeDefFrom(ctx, name, Len(ctx))

FunHandle(id) == [k |-> "fun", id |-> id]
VarHandle(decl) == [k |-> "var", decl |-> decl]

\* solc-typed-ast resolveByName(contract, FunctionDefinition, name, false)
resolveByName(contract, name) ==
    With(Contracts[contract].vLinearizedBaseContracts, LAMBDA bases :
        Flatten([i \in 1..Len(bases) |->
            With(SelectSeq(Contracts[bases[i]].vFunctions, LAMBDA f : FunDefs[f].name = name),
                 LAMBDA funs : [j \in 1..Len(funs) |-> FunHandle(funs[j])])]))

(***************************************************************************)
(* D. The expression type checker                                          *)
(***************************************************************************)
\* The checker's view of the world during one call: the AST, the TypeMap,
\* the SFunctionSetType objects, the def-site stamps, and the value or the
\* exception (res) with which the innermost finished call ended.
NoType == [t |-> "none"]
OkRes(type) == [ok |-> TRUE, type |-> type, err |-> "", expr |-> <<>>, loc |-> <<>>]
Ok(st, type) == [st EXCEPT !.res = OkRes(type)]
\* throw: the error class, the node it stores, the node whose range loc()
\* reports, and the type it stores (actualT, typeA)
Raise(st, err, e, loc, type) ==
    [st EXCEPT !.res = [ok |-> FALSE, type |-> type, err |-> err, expr |-> e, loc |-> loc]]
\* a plain Error or failed assert: not an STypeError
Fatal(st, node) == Raise(st, "Error", node, node, NoType)
FromIngest(st, node, type) == IF IsThrown(type) THEN Fatal(st, node) ELSE Ok(st, type)

\* struct_equality eq on types: structural comparison
eq(a, b) == a = b

\* integer widening that ignores signedness
isImplicitlyCastable_anySign(e, type, to) ==
    IF type = to THEN TRUE
    ELSE IF type.t = "IntLiteral" /\ to.t = "Int" THEN TRUE
    ELSE IF type.t = "Int" /\ to.t = "Int" THEN type.nBits <= to.nBits
    ELSE IF type.t = "Pointer" /\ to.t = "Pointer" /\ type.to = to.to THEN TRUE
    ELSE FALSE

isImplicitlyCastable(e, type, to) ==
    IF eq(type, to) THEN TRUE
    ELSE IF type.t = "IntLiteral" /\ to.t = "Int" THEN TRUE
    ELSE IF type.t = "StringLiteral" /\ to.t = "Pointer" /\ to.to.t = "Bytes" THEN TRUE
    ELSE IF type.t = "StringLiteral" /\ to.t = "Pointer" /\ to.to.t = "String" THEN TRUE
    ELSE IF type.t = "Int" /\ to.t = "Int"
         THEN type.signed = to.signed /\ type.nBits <= to.nBits
    ELSE IF type.t = "Address" /\ to.t = "Address" THEN ~to.payable
    ELSE IF type.t = "Pointer" /\ to.t = "Pointer" /\ eq(type.to, to.to) THEN TRUE
    ELSE FALSE

\* a unification that keeps the type it casts from
unifyTypes_keepNarrow(st, exprA, typeA, exprB, typeB, commonParent) ==
    IF isImplicitlyCastable(exprA, typeA, typeB) THEN Ok(st, typeA)
    ELSE IF isImplicitlyCastable(exprB, typeB, typeA) THEN Ok(st, typeB)
    ELSE Raise(st, "IncompatibleTypes", exprA, commonParent, typeA)

unifyTypes(st, exprA, typeA, exprB, typeB, commonParent) ==
    IF isImplicitlyCastable(exprA, typeA, typeB) THEN Ok(st, typeB)
    ELSE IF isImplicitlyCastable(exprB, typeB, typeA) THEN Ok(st, typeA)
    ELSE Raise(st, "IncompatibleTypes", exprA, commonParent, typeA)

\* BuiltinTypeDetectors: the regular expressions, then the handlers
\* /^address( )*(payable)?$/ : group 2 is `undefined` when it took no part
DetectAddressRE(cs) ==
    LET pre == <<"a","d","d","r","e","s","s">>
        pay == <<"p","a","y","a","b","l","e">>
        sp == IF StartsWith(cs, pre)
              THEN {i \in 0..(Len(cs) - Len(pre)) :
                       /\ \A j \in 1..i : cs[Len(pre) + j] = " "
                       /\ SubSeq(cs, Len(pre) + i + 1, Len(cs)) \in {<<>>, pay}}
              ELSE {}
    IN  [m |-> sp # {},
         g2 |-> IF sp # {} /\ Len(cs) >= Len(pre) + Len(pay)
                   /\ SubSeq(cs, Len(cs) - Len(pay) + 1, Len(cs)) = pay
                THEN "payable" ELSE "undefined"]

\* /^bytes([0-9]?[0-9]?)$/
DetectBytesRE(cs) ==
    LET pre == <<"b","y","t","e","s">>
        ok == StartsWith(cs, pre) /\ Len(cs) <= Len(pre) + 2 /\ AllDigits(After(cs, pre))
    IN  [m |-> ok, g1 |-> IF ok THEN After(cs, pre) ELSE <<>>]

\* /^(u)?int([0-9]?[0-9]?[0-9]?)$/
DetectIntRE(cs) ==
    LET u == StartsWith(cs, <<"u">>)
        rest == IF u THEN Tail(cs) ELSE cs
        ok == /\ StartsWith(rest, <<"i","n","t">>) /\ Len(rest) <= 6
              /\ AllDigits(After(rest, <<"i","n","t">>))
    IN  [m |-> ok, g1 |-> IF u THEN "u" ELSE "undefined",
         g2 |-> IF ok THEN After(rest, <<"i","n","t">>) ELSE <<>>]

\* the type a detector gives, as a one-or-zero element sequence
tcIdBuiltinType(name) ==
    With(Chars(name), LAMBDA cs :
    With(DetectAddressRE(cs), LAMBDA ma :
    With(DetectBytesRE(cs), LAMBDA mb :
    With(DetectIntRE(cs), LAMBDA mi :
    With(IF mb.m /\ mb.g1 # <<>> THEN parseInt(mb.g1) ELSE 0, LAMBDA size :
    With(IF mi.m /\ mi.g2 # <<>> THEN parseInt(mi.g2) ELSE 0, LAMBDA nBits :
        IF name = "bool" THEN <<SBuiltinTypeNameType(SBoolType)>>
        ELSE IF name = "string" THEN <<SBuiltinTypeNameType(SString)>>
        ELSE IF ma.m THEN <<SBuiltinTypeNameType(SAddressType(ma.g2 # ""))>>
        ELSE IF mb.m /\ mb.g1 = <<>> THEN <<SBuiltinTypeNameType(SBytes)>>
        ELSE IF mb.m /\ size >= 1 /\ size <= 32
             THEN <<SBuiltinTypeNameType(SFixedBytes(size))>>
        ELSE IF name = "byte" THEN <<SBuiltinTypeNameType(SFixedBytes(1))>>
        ELSE IF mi.m /\ mi.g2 = <<>> THEN <<SBuiltinTypeNameType(SIntType(256, mi.g1 # "u"))>>
        ELSE IF mi.m /\ nBits % 8 = 0 /\ nBits >= 8 /\ nBits <= 256
             THEN <<SBuiltinTypeNameType(SIntType(nBits, mi.g1 # "u"))>>
        ELSE <<>>))))))

tcIdBuiltin(name) ==
    IF name \in DOMAIN BuiltinSymbols THEN <<BuiltinSymbols[name]>> ELSE <<>>

\* new SFunctionSetType(definitions, defaultArg): allocates the object
NewFunctionSet(st, definitions, hasDefaultArg, defaultArg) ==
    Ok([st EXCEPT !.fs = Append(st.fs, [definitions |-> definitions,
                                        hasDefaultArg |-> hasDefaultArg,
                                        defaultArg |-> defaultArg])],
       SFunctionSetType(Len(st.fs) + 1))

Stamp(st, node, stamp) == [st EXCEPT !.ds = (node :> stamp) @@ st.ds]

RECURSIVE tc(_, _, _)

RECURSIVE tcAll(_, _, _)
\* args.map((arg) => tc(arg, ctx, typeMap)): the types are left in ts
tcAll(nodes, ctx, st) ==
    IF nodes = <<>> THEN [Ok(st, NoType) EXCEPT !.ts = <<>>]
    ELSE With(tc(Head(nodes), ctx, st), LAMBDA s1 :
            IF ~s1.res.ok THEN s1
            ELSE With(tcAll(Tail(nodes), ctx, s1), LAMBDA s2 :
                    IF ~s2.res.ok THEN s2
                    ELSE [s2 EXCEPT !.ts = <<s1.res.type>> \o s2.ts]))

\* the result is absent (found = FALSE) when the name is no variable
tcIdVariable(node, e, ctx, st) ==
    With(lookupVarDef(e.name, ctx, st.root), LAMBDA def :
        IF ~def.found THEN [st |-> st, found |-> FALSE]
        ELSE IF def.k = "decl"
        THEN [st |-> FromIngest(Stamp(st, node, def), node,
                                astVarToSType(def.decl, FALSE, "")),
              found |-> TRUE]
        ELSE With(tc(def.node \o <<1>>, ctx, Stamp(st, node, def)), LAMBDA s1 :
             With(NodeAt(st.root, def.node).lhs, LAMBDA lhs :
             With(s1.res.type, LAMBDA rhsT :
                IF ~s1.res.ok THEN [st |-> s1, found |-> TRUE]
                ELSE IF Len(lhs) > 1
                THEN IF ~(rhsT.t = "Tuple" /\ Len(rhsT.elements) = Len(lhs))
                     THEN [st |-> Raise(s1, "SExprCountMismatch", def.node, def.node, NoType),
                           found |-> TRUE]
                     ELSE [st |-> Ok(s1, rhsT.elements[def.bindingIdx]), found |-> TRUE]
                ELSE [st |-> Ok(s1, rhsT), found |-> TRUE]))))

\* functions of the contract tried before variables
tcIdOrder_functionFirst ==
    <<"builtin_type", "function_name", "variable", "type_name", "builtin">>

\* the lookups of tcId after `this`, in the order the source tries them
tcIdOrder == <<"builtin_type", "variable", "function_name", "type_name", "builtin">>

RECURSIVE tcIdFrom(_, _, _, _, _)
tcIdFrom(i, node, e, ctx, st) ==
    IF i > Len(tcIdOrder) THEN Raise(st, "SUnknownId", node, node, NoType)
    ELSE IF tcIdOrder[i] = "builtin_type" THEN
        With(tcIdBuiltinType(e.name), LAMBDA type :
            IF type # <<>> THEN Ok(st, type[1]) ELSE tcIdFrom(i + 1, node, e, ctx, st))
    ELSE IF tcIdOrder[i] = "variable" THEN
        With(tcIdVariable(node, e, ctx, st), LAMBDA var :
            IF var.found THEN var.st ELSE tcIdFrom(i + 1, node, e, ctx, st))
    ELSE IF tcIdOrder[i] = "function_name" THEN
        With(resolveByName(ctx[2].name, e.name), LAMBDA funDefs :
            IF Len(funDefs) > 0
            THEN NewFunctionSet(Stamp(st, node, [k |-> "function_name"]), funDefs, FALSE, <<>>)
            ELSE tcIdFrom(i + 1, node, e, ctx, st))
    ELSE IF tcIdOrder[i] = "type_name" THEN
        With(resolveTypeDef(ctx, e.name), LAMBDA userDef :
            IF userDef # <<>>
            THEN Ok(Stamp(st, node, [k |-> "type_name"]), SUserDefinedTypeNameType(userDef[1]))
            ELSE tcIdFrom(i + 1, node, e, ctx, st))
    ELSE
        With(tcIdBuiltin(e.name), LAMBDA type :
            IF type # <<>> THEN Ok(st, type[1]) ELSE tcIdFrom(i + 1, node, e, ctx, st))

tcId(node, e, ctx, st) ==
    IF e.name = "this"
    THEN Ok(Stamp(st, node, [k |-> "this"]),
            SPointer(SUserDefinedType(getUserDefinedTypeFQName(ctx[2].name), ctx[2].name),
                     "storage"))
    ELSE tcIdFrom(1, node, e, ctx, st)

\* $result that looks for the function through the let scopes above it
tcResult_throughLets(node, e, ctx, st) ==
    With(SelectSeq(ctx, LAMBDA scope : scope.k = "function"), LAMBDA funs :
        IF funs = <<>> THEN Raise(st, "SInvalidKeyword", node, node, NoType)
        ELSE With(FunDefs[funs[1].id].vReturnParameters, LAMBDA rets :
             With([i \in 1..Len(rets) |-> astTypeNameToSType(rets[i].vType)], LAMBDA retTs :
                IF Len(rets) = 0 THEN Raise(st, "SInvalidKeyword", node, node, NoType)
                ELSE IF IsThrown(FirstThrown(retTs)) THEN Fatal(st, node)
                ELSE IF Len(rets) = 1 THEN Ok(st, retTs[1])
                ELSE Ok(st, STupleType(retTs)))))

tcResult(node, e, ctx, st) ==
    IF ctx[Len(ctx)].k # "function" THEN Raise(st, "SInvalidKeyword", node, node, NoType)
    ELSE With(FunDefs[ctx[Len(ctx)].id].vReturnParameters, LAMBDA rets :
         With([i \in 1..Len(rets) |-> astTypeNameToSType(rets[i].vType)], LAMBDA retTs :
            IF Len(rets) = 0 THEN Raise(st, "SInvalidKeyword", node, node, NoType)
            ELSE IF IsThrown(FirstThrown(retTs)) THEN Fatal(st, node)
            ELSE IF Len(rets) = 1 THEN Ok(st, retTs[1])
            ELSE Ok(st, STupleType(retTs))))

tcUnary(node, e, ctx, st) ==
    With(tc(node \o <<1>>, ctx, st), LAMBDA s1 :
    With(s1.res.type, LAMBDA innerT :
        IF ~s1.res.ok THEN s1
        ELSE IF e.op = "!"
        THEN IF innerT.t # "Bool"
             THEN Raise(s1, "SWrongType", node \o <<1>>, node \o <<1>>, innerT)
             ELSE Ok(s1, SBoolType)
        ELSE IF e.op = "-"
        THEN IF innerT.t \in {"IntLiteral", "Int"} THEN Ok(s1, innerT)
             ELSE Raise(s1, "SWrongType", node \o <<1>>, node \o <<1>>, innerT)
        ELSE s1))

\* integer operands that also admit fixed bytes
IntOrLit_orFixed(type) == type.t \in {"Int", "IntLiteral", "FixedBytes"}
\* shiftable operands without fixed bytes
IntLitOrFixed_noFixed(type) == type.t \in {"Int", "IntLiteral"}
IntOrLit(type) == type.t \in {"Int", "IntLiteral"}
IntLitOrFixed(type) == type.t \in {"Int", "IntLiteral", "FixedBytes"}

tcBinary(node, e, ctx, st) ==
    With(tc(node \o <<1>>, ctx, st), LAMBDA s1 :
    With(tc(node \o <<2>>, ctx, s1), LAMBDA s2 :
    With(node \o <<1>>, LAMBDA left :
    With(node \o <<2>>, LAMBDA right :
    With(s1.res.type, LAMBDA lhsT :
    With(s2.res.type, LAMBDA rhsT :
        IF ~s1.res.ok THEN s1
        ELSE IF ~s2.res.ok THEN s2
        ELSE IF e.op = "**" THEN
            IF \/ ~IntOrLit(rhsT)
               \/ (rhsT.t = "Int" /\ rhsT.signed)
               \/ (e.right.k = "SNumber" /\ e.right.neg)
            THEN Raise(s2, "SWrongType", right, right, rhsT)
            ELSE IF ~IntOrLit(lhsT) THEN Raise(s2, "SWrongType", left, left, lhsT)
            ELSE Ok(s2, IF lhsT.t = "IntLiteral" THEN rhsT ELSE lhsT)
        ELSE IF e.op \in {"*", "%", "/", "+", "-"} THEN
            IF ~IntOrLit(lhsT) THEN Raise(s2, "SWrongType", left, left, lhsT)
            ELSE IF ~IntOrLit(rhsT) THEN Raise(s2, "SWrongType", right, right, rhsT)
            ELSE unifyTypes(s2, left, lhsT, right, rhsT, node)
        ELSE IF e.op \in {"<<", ">>"} THEN
            IF ~IntLitOrFixed(lhsT) THEN Raise(s2, "SWrongType", right, right, lhsT)
            ELSE IF ~IntOrLit(rhsT) THEN Raise(s2, "SWrongType", right, right, rhsT)
            ELSE Ok(s2, IF lhsT.t = "IntLiteral" THEN rhsT ELSE lhsT)
        ELSE IF e.op \in {"<", ">", "<=", ">="} THEN
            IF ~IntLitOrFixed(lhsT) THEN Raise(s2, "SWrongType", right, right, lhsT)
            ELSE IF ~IntLitOrFixed(rhsT) THEN Raise(s2, "SWrongType", right, right, rhsT)
            ELSE With(unifyTypes(s2, left, lhsT, right, rhsT, node), LAMBDA unified :
                    IF ~unified.res.ok THEN unified ELSE Ok(s2, SBoolType))
        ELSE IF e.op \in {"==", "!="} THEN
            With(unifyTypes(s2, left, lhsT, right, rhsT, node), LAMBDA unified :
                IF ~unified.res.ok THEN unified ELSE Ok(s2, SBoolType))
        ELSE IF e.op \in {"|", "&", "^"} THEN
            IF IntLitOrFixed(lhsT) /\ IntLitOrFixed(rhsT)
            THEN unifyTypes(s2, left, lhsT, right, rhsT, node)
            ELSE Raise(s2, "IncompatibleTypes", left, node, lhsT)
        ELSE IF e.op \in {"||", "&&", "==>"} THEN
            IF ~(lhsT.t = "Bool" /\ rhsT.t = "Bool")
            THEN Raise(s2, "IncompatibleTypes", left, node, lhsT)
            ELSE Ok(s2, SBoolType)
        ELSE Fatal(s2, node)))))))

tcConditional(node, e, ctx, st) ==
    With(tc(node \o <<1>>, ctx, st), LAMBDA s1 :
    With(tc(node \o <<2>>, ctx, s1), LAMBDA s2 :
    With(tc(node \o <<3>>, ctx, s2), LAMBDA s3 :
        IF ~s1.res.ok THEN s1
        ELSE IF ~s2.res.ok THEN s2
        ELSE IF ~s3.res.ok THEN s3
        ELSE IF s1.res.type.t # "Bool"
             THEN Raise(s3, "SWrongType", node \o <<1>>, node \o <<1>>, s1.res.type)
        ELSE unifyTypes(s3, node \o <<2>>, s2.res.type, node \o <<3>>, s3.res.type, node))))

tcIndexAccess(node, e, ctx, st) ==
    With(tc(node \o <<1>>, ctx, st), LAMBDA s1 :
    With(tc(node \o <<2>>, ctx, s1), LAMBDA s2 :
    With(node \o <<2>>, LAMBDA index :
    With(s1.res.type, LAMBDA baseT :
    With(s2.res.type, LAMBDA indexT :
    With(Raise(s2, "SWrongType", index, index, indexT), LAMBDA badIndex :
        IF ~s1.res.ok THEN s1
        ELSE IF ~s2.res.ok THEN s2
        ELSE IF baseT.t = "FixedBytes"
             THEN IF ~isInty(indexT) THEN badIndex ELSE Ok(s2, SIntType(8, FALSE))
        ELSE IF baseT.t = "Pointer" /\ baseT.to.t = "Bytes"
             THEN IF ~isInty(indexT) THEN badIndex ELSE Ok(s2, SIntType(8, FALSE))
        ELSE IF baseT.t = "Pointer" /\ baseT.to.t = "Array"
             THEN IF ~isInty(indexT) THEN badIndex ELSE Ok(s2, baseT.to.elementT)
        ELSE IF baseT.t = "Pointer" /\ baseT.to.t = "Mapping"
             THEN IF ~isImplicitlyCastable(index, indexT, baseT.to.keyType) THEN badIndex
                  ELSE Ok(s2, baseT.to.valueType)
        ELSE Raise(s2, "SWrongType", node, node, baseT)))))))

\* insertion into a JS Set: first occurrences, in order
RECURSIVE Dedup(_)
Dedup(seq) ==
    IF seq = <<>> THEN <<>>
    ELSE With(Dedup(SubSeq(seq, 1, Len(seq) - 1)), LAMBDA front :
            IF \E i \in 1..Len(front) : front[i] = seq[Len(seq)] THEN front
            ELSE Append(front, seq[Len(seq)]))

\* the functions named member of the library of one directive, when the
\* directive is for every type or for the general type of the base
usingForDirectiveFuns(usingFor, generalBaseT, member) ==
    IF usingFor.hasType /\ ~eq(astTypeNameToSType(usingFor.vTypeName), generalBaseT)
    THEN <<>>
    ELSE With(SelectSeq(Contracts[usingFor.vLibraryName].vFunctions,
                        LAMBDA f : FunDefs[f].name = member),
              LAMBDA named : [j \in 1..Len(named) |-> FunHandle(named[j])])

\* the functions that `using for` directives of the bases of a contract attach
\* to a value of type baseT under the name member
usingForFuns(contract, baseT, member) ==
    With(despecializeType(baseT), LAMBDA generalBaseT :
    With(Contracts[contract].vLinearizedBaseContracts, LAMBDA bases :
    With(Flatten([i \in 1..Len(bases) |-> Contracts[bases[i]].vUsingForDirectives]),
         LAMBDA directives :
        Dedup(Flatten([i \in 1..Len(directives) |->
                usingForDirectiveFuns(directives[i], generalBaseT, member)])))))

\* a member that exists gives its type
tcMember(s1, node, members, member) ==
    IF member \in DOMAIN members THEN Ok(s1, members[member])
    ELSE Raise(s1, "SNoField", node, node, NoType)

\* a field of a struct value, ingested at the location of the value
tcStructField(s1, node, baseT, member) ==
    With(FirstNamed(StructMembers[baseT.to.definition], member), LAMBDA fields :
        IF fields # <<>>
        THEN FromIngest(s1, node, astVarToSType(fields[1], TRUE, baseT.location))
        ELSE Raise(s1, "SNoField", node, node, NoType))

\* a function, a public state variable or an address member of a contract value
tcContractMember(s1, node, baseT, member) ==
    With(resolveByName(baseT.to.definition, member), LAMBDA funDefs :
    With(SelectSeq(Contracts[baseT.to.definition].vStateVariables,
                   LAMBDA v : v.name = member /\ v.visibility = "public"), LAMBDA getters :
        IF Len(funDefs) > 0 THEN NewFunctionSet(s1, funDefs, FALSE, <<>>)
        ELSE IF getters # <<>>
             THEN NewFunctionSet(s1, <<VarHandle(getters[1])>>, FALSE, <<>>)
        ELSE tcMember(s1, node, BuiltinAddressMembers, member)))

\* no rule for the base: the functions attached by `using for`
tcUsingFor(s1, node, ctx, baseT, member) ==
    With(usingForFuns(ctx[2].name, baseT, member), LAMBDA funs :
        IF Len(funs) > 0 THEN NewFunctionSet(s1, funs, TRUE, node \o <<1>>)
        ELSE Raise(s1, "SNoField", node \o <<1>>, node \o <<1>>, NoType))

\* a type or a function nested in a contract named as a type; the rule does
\* not apply (applies = FALSE) when the contract has neither
tcContractTypeMember(s1, ctx, baseT, member) ==
    With(resolveTypeDef(<<ctx[1], ContractCtx(baseT.definition)>>, member), LAMBDA nested :
    With(resolveByName(baseT.definition, member), LAMBDA libFuns :
        IF nested # <<>>
        THEN [applies |-> TRUE, st |-> Ok(s1, SUserDefinedTypeNameType(nested[1]))]
        ELSE IF Len(libFuns) > 0
        THEN [applies |-> TRUE, st |-> NewFunctionSet(s1, libFuns, FALSE, <<>>)]
        ELSE [applies |-> FALSE, st |-> s1]))

\* the rules after the contract-as-type rule
tcMemberRest(s1, node, ctx, baseT, member) ==
    IF /\ baseT.t = "UserDefinedTypeName" /\ DefKind(baseT.definition) = "enum"
       /\ \E i \in 1..Len(EnumMembers[baseT.definition]) :
             EnumMembers[baseT.definition][i] = member
    THEN Ok(s1, SUserDefinedType(getUserDefinedTypeFQName(baseT.definition),
                                 baseT.definition))
    ELSE IF baseT.t = "FunctionSet" /\ member = "selector"
            /\ Len(s1.fs[baseT.ref].definitions) = 1
         THEN Ok(s1, SFixedBytes(4))
    ELSE tcUsingFor(s1, node, ctx, baseT, member)

tcMemberAccess(node, e, ctx, st) ==
    With(tc(node \o <<1>>, ctx, st), LAMBDA s1 :
    With(s1.res.type, LAMBDA baseT :
        IF ~s1.res.ok THEN s1
        ELSE IF baseT.t = "BuiltinStruct"
             THEN tcMember(s1, node, BuiltinStructMembers[baseT.name], e.member)
        ELSE IF baseT.t = "Pointer" /\ baseT.to.t = "Array" /\ e.member = "length"
             THEN Ok(s1, SIntType(256, FALSE))
        ELSE IF baseT.t = "Pointer" /\ baseT.to.t = "UserDefined"
                /\ DefKind(baseT.to.definition) = "struct"
             THEN tcStructField(s1, node, baseT, e.member)
        ELSE IF baseT.t = "Pointer" /\ baseT.to.t = "UserDefined"
                /\ DefKind(baseT.to.definition) = "contract"
             THEN tcContractMember(s1, node, baseT, e.member)
        ELSE IF baseT.t = "Address"
             THEN tcMember(s1, node, BuiltinAddressMembers, e.member)
        ELSE IF baseT.t = "UserDefinedTypeName" /\ DefKind(baseT.definition) = "contract"
             THEN With(tcContractTypeMember(s1, ctx, baseT, e.member), LAMBDA found :
                     IF found.applies THEN found.st
                     ELSE tcMemberRest(s1, node, ctx, baseT, e.member))
        ELSE tcMemberRest(s1, node, ctx, baseT, e.member)))

\* a let that does not compare the number of names with the right-hand side
tcLet_anyArity(node, e, ctx, st) ==
    With(tc(node \o <<1>>, ctx, st), LAMBDA s1 :
        IF ~s1.res.ok THEN s1
        ELSE tc(node \o <<2>>, Append(ctx, LetCtx(node)), s1))

tcLet(node, e, ctx, st) ==
    With(tc(node \o <<1>>, ctx, st), LAMBDA s1 :
    With(s1.res.type, LAMBDA rhsT :
        IF ~s1.res.ok THEN s1
        ELSE IF rhsT.t = "Tuple" /\ Len(e.lhs) # Len(rhsT.elements)
             THEN Raise(s1, "SExprCountMismatch", node, node, NoType)
        ELSE IF rhsT.t # "Tuple" /\ Len(e.lhs) # 1
             THEN Raise(s1, "SExprCountMismatch", node, node, NoType)
        ELSE tc(node \o <<2>>, Append(ctx, LetCtx(node)), s1)))

getFunDefType(fun) ==
    With(FunDefs[fun], LAMBDA def :
        SFunctionType(
            [i \in 1..Len(def.vParameters) |-> astVarToSType(def.vParameters[i], FALSE, "")],
            [i \in 1..Len(def.vReturnParameters) |->
                astVarToSType(def.vReturnParameters[i], FALSE, "")],
            def.visibility, def.stateMutability))

\* matching that compares only the positions both lists have
matchArguments_anyArity(args, argTs, funT) ==
    \A i \in 1..Len(funT.parameters) :
        i <= Len(argTs) => isImplicitlyCastable(args[i], argTs[i], funT.parameters[i])

\* callable is the SFunctionType of a definition or of a function value
matchArguments(args, argTs, funT) ==
    IF Len(argTs) # Len(funT.parameters) THEN FALSE
    ELSE \A i \in 1..Len(funT.parameters) :
            isImplicitlyCastable(args[i], argTs[i], funT.parameters[i])

\* a call that leaves the candidate list as it found it
narrow_keepAll(definitions, def) == definitions

\* calleeT.definitions = [def]
narrow(definitions, def) == <<def>>

\* what a call gives once its argument types are known: retTs of a function
returnOf(st, node, retTs, noReturn) ==
    IF Len(retTs) = 1 THEN Ok(st, retTs[1])
    ELSE IF Len(retTs) > 1 THEN Ok(st, STupleType(retTs))
    ELSE Raise(st, noReturn, node, node \o <<1>>, NoType)

\* a cast to a user-defined type; s2 is the state after the arguments
\* a struct constructor held to the one-argument rule of casts
tcCastUserDefined_structOneArg(s2, node, definition) ==
    With(SUserDefinedType(getUserDefinedTypeFQName(definition), definition), LAMBDA to :
        IF Len(s2.ts) # 1 THEN Raise(s2, "SExprCountMismatch", node, node, NoType)
        ELSE IF DefKind(definition) = "struct" THEN Ok(s2, SPointer(to, "memory"))
        ELSE IF DefKind(definition) = "contract" THEN Ok(s2, SPointer(to, "storage"))
        ELSE IF s2.ts[1].t = "Pointer" THEN Ok(s2, SPointer(to, s2.ts[1].location))
        ELSE Ok(s2, SPointer(to, "undefined")))

tcCastUserDefined(s2, node, definition) ==
    With(SUserDefinedType(getUserDefinedTypeFQName(definition), definition), LAMBDA to :
        IF DefKind(definition) = "struct" THEN Ok(s2, SPointer(to, "memory"))
        ELSE IF Len(s2.ts) # 1 THEN Raise(s2, "SExprCountMismatch", node, node, NoType)
        ELSE IF DefKind(definition) = "contract" THEN Ok(s2, SPointer(to, "storage"))
        ELSE IF s2.ts[1].t = "Pointer" THEN Ok(s2, SPointer(to, s2.ts[1].location))
        ELSE Ok(s2, SPointer(to, "undefined")))

\* the type of a call from the one definition that matches it
tcCallDef(s4, node, def) ==
    IF def.k = "fun"
    THEN returnOf(s4, node, getFunDefType(def.id).returns, "SFunNoReturn")
    ELSE IF def.decl.vType.k = "UserDefinedTypeName" THEN Fatal(s4, node)
    ELSE FromIngest(s4, node, astVarToSType(def.decl, FALSE, ""))

\* a call on a function set; s3 is the state after the arguments, the
\* default argument first
tcCallFunctionSet(s3, node, e, ref, args) ==
    With(s3.fs[ref].definitions, LAMBDA definitions :
    With(SelectSeq(definitions,
                   LAMBDA fun : /\ fun.k = "fun"
                                /\ matchArguments(args, s3.ts, getFunDefType(fun.id)))
         \o SelectSeq(definitions, LAMBDA fun : fun.k = "var" /\ Len(e.args) = 0),
         LAMBDA matchingDefs :
        IF Len(matchingDefs) = 0
        THEN Raise(s3, "SUnresolvedFun", node, node \o <<1>>, NoType)
        ELSE IF Len(matchingDefs) > 1 THEN Fatal(s3, node)
        ELSE tcCallDef([s3 EXCEPT !.fs[ref].definitions = narrow(definitions, matchingDefs[1])],
                       node, matchingDefs[1])))

\* a call of a function value; s2 is the state after the arguments
tcCallFunction(s2, node, argNodes, calleeT) ==
    IF ~matchArguments(argNodes, s2.ts, calleeT)
    THEN Raise(s2, "SArgumentMismatch", node, node \o <<1>>, NoType)
    ELSE returnOf(s2, node, calleeT.returns, "SFunNoReturn")

\* the written arguments of a call, and with the default argument of a set
ArgNodes(node, e) == [i \in 1..Len(e.args) |-> node \o <<i + 1>>]
ArgsOfSet(obj, argNodes) ==
    IF obj.hasDefaultArg THEN <<obj.defaultArg>> \o argNodes ELSE argNodes

tcFunctionCall(node, e, ctx, st) ==
    With(tc(node \o <<1>>, ctx, st), LAMBDA s1 :
    With(s1.res.type, LAMBDA calleeT :
    With(ArgNodes(node, e), LAMBDA argNodes :
        IF ~s1.res.ok THEN s1
        ELSE IF calleeT.t = "BuiltinTypeName" THEN
            With(tcAll(argNodes, ctx, s1), LAMBDA s2 :
                IF ~s2.res.ok THEN s2
                ELSE IF Len(e.args) # 1
                     THEN Raise(s2, "SExprCountMismatch", node, node, NoType)
                ELSE Ok(s2, calleeT.type))
        ELSE IF calleeT.t = "UserDefinedTypeName" THEN
            With(tcAll(argNodes, ctx, s1), LAMBDA s2 :
                IF ~s2.res.ok THEN s2 ELSE tcCastUserDefined(s2, node, calleeT.definition))
        ELSE IF calleeT.t = "FunctionSet" THEN
            With(ArgsOfSet(s1.fs[calleeT.ref], argNodes), LAMBDA args :
            With(tcAll(args, ctx, s1), LAMBDA s3 :
                IF ~s3.res.ok THEN s3
                ELSE tcCallFunctionSet(s3, node, e, calleeT.ref, args)))
        ELSE IF calleeT.t = "Function" THEN
            With(tcAll(argNodes, ctx, s1), LAMBDA s2 :
                IF ~s2.res.ok THEN s2 ELSE tcCallFunction(s2, node, argNodes, calleeT))
        ELSE Raise(s1, "SWrongType", node \o <<1>>, node \o <<1>>, calleeT))))

\* a map that keeps the type a diagnostic carries
cache_thrownToo(st, node) ==
    IF st.res.ok \/ st.res.type # NoType THEN [st EXCEPT !.tm = (node :> st.res.type) @@ st.tm]
    ELSE st

\* typeMap.set(expr, type)
cache(st, node) ==
    IF st.res.ok THEN [st EXCEPT !.tm = (node :> st.res.type) @@ st.tm] ELSE st

\* a type as a reader of it sees it: a function set with its current definitions
View(type, fs) ==
    IF type.t = "FunctionSet"
    THEN [t |-> "FunctionSet", definitions |-> fs[type.ref].definitions,
          hasDefaultArg |-> fs[type.ref].hasDefaultArg]
    ELSE type

\* history: what tc returned for a node the first time it returned for it
Observe(st, node) ==
    IF st.res.ok /\ node \notin DOMAIN st.h
    THEN [st EXCEPT !.h = (node :> View(st.res.type, st.fs)) @@ st.h]
    ELSE st

tcDispatch(node, e, ctx, st) ==
    IF e.k = "SNumber" THEN Ok(st, SIntLiteralType)
    ELSE IF e.k = "SBooleanLiteral" THEN Ok(st, SBoolType)
    ELSE IF e.k = "SStringLiteral" THEN Ok(st, SStringLiteralType)
    ELSE IF e.k = "SHexLiteral" THEN Ok(st, SStringLiteralType)
    ELSE IF e.k = "SAddressLiteral" THEN Ok(st, SAddressType(TRUE))
    ELSE IF e.k = "SId" THEN tcId(node, e, ctx, st)
    ELSE IF e.k = "SResult" THEN tcResult(node, e, ctx, st)
    ELSE IF e.k = "SUnaryOperation" THEN tcUnary(node, e, ctx, st)
    ELSE IF e.k = "SBinaryOperation" THEN tcBinary(node, e, ctx, st)
    ELSE IF e.k = "SConditional" THEN tcConditional(node, e, ctx, st)
    ELSE IF e.k = "SIndexAccess" THEN tcIndexAccess(node, e, ctx, st)
    ELSE IF e.k = "SMemberAccess" THEN tcMemberAccess(node, e, ctx, st)
    ELSE IF e.k = "SLet" THEN tcLet(node, e, ctx, st)
    ELSE IF e.k = "SFunctionCall" THEN tcFunctionCall(node, e, ctx, st)
    ELSE Fatal(st, node)

\* a checker that computes every node afresh
cacheHit_never(st, node) == FALSE

\* typeMap.has(expr)
cacheHit(st, node) == node \in DOMAIN st.tm

tc(node, ctx, st) ==
    IF cacheHit(st, node) THEN Observe(Ok(st, st.tm[node]), node)
    ELSE Observe(cache(tcDispatch(node, NodeAt(st.root, node), ctx, st), node), node)

\* a fresh call on the tree root with an empty map, as the unit tests make it
FreshState(root) ==
    [root |-> root, tm |-> <<>>, fs |-> <<>>, ds |-> <<>>, h |-> <<>>, ts |-> <<>>,
     res |-> OkRes(NoType)]
ContractLevel == <<UnitsScope, ContractCtx("Foo")>>
InFunction(id) == <<UnitsScope, ContractCtx("Foo"), FunctionCtx(id)>>

(***************************************************************************)
(* The state machine: annotations are checked, node by node, against one   *)
(* shared TypeMap                                                          *)
(***************************************************************************)
\* the contexts the driver builds: a contract, or a function of it
BaseCtxs ==
    {ContractLevel} \cup
    {InFunction(id) : id \in {"Foo_add", "Foo_sh", "Foo_ext", "Foo_idPair", "Foo_foo"}}

\* the let scopes tcLet has pushed by the time it reaches a node
LetScopes(root, node) ==
    LET prefixes == [i \in 1..Len(node) |-> SubSeq(node, 1, i - 1)]
        lets == SelectSeq(prefixes, LAMBDA q : /\ NodeAt(root, q).k = "SLet"
                                               /\ node[Len(q) + 1] = 2)
    IN  [i \in 1..Len(lets) |-> LetCtx(lets[i])]

\* the context in which the checker reaches a node of the annotation
CtxOf(node) == site \o LetScopes(expr, node)

NoCall == [called |-> FALSE, node |-> <<>>, hit |-> FALSE, res |-> OkRes(NoType)]

\* the call has returned or thrown with r: the map, the function sets and
\* the def-site stamps are as the call left them
Returned(node, r) ==
    /\ typeMap' = r.tm
    /\ fsets' = r.fs
    /\ defSite' = r.ds
    /\ hist' = r.h
    /\ outcome' = [called |-> TRUE, node |-> node, hit |-> node \in DOMAIN typeMap,
                   res |-> r.res]
    /\ UNCHANGED <<expr, site, arg, ret>>

\* tc(node, ctx, typeMap), called from outside
Check(node) ==
    Returned(node, tc(node, CtxOf(node),
                      [root |-> expr, tm |-> typeMap, fs |-> fsets, ds |-> defSite,
                       h |-> hist, ts |-> <<>>, res |-> OkRes(NoType)]))

Next == \E node \in Paths(expr) : Check(node)

InitWith(roots, sites) ==
    /\ expr \in roots
    /\ site \in sites
    /\ typeMap = <<>>
    /\ fsets = <<>>
    /\ defSite = <<>>
    /\ hist = <<>>
    /\ outcome = NoCall
    /\ arg = [fn |-> "none"]
    /\ ret = [stage |-> "none"]

MaxArgs == 2

Num == SNumber(FALSE)
ArgLeaves == {Num, SBooleanLiteral, SId("u32a")}
RECURSIVE ArgListsOf(_)
ArgListsOf(n) ==
    IF n = 0 THEN {<<>>}
    ELSE ArgListsOf(n - 1) \cup
         {Append(l, a) : l \in {m \in ArgListsOf(n - 1) : Len(m) = n - 1}, a \in ArgLeaves}
ArgLists == ArgListsOf(MaxArgs)

\* callees: overload sets, getters, library attachments, casts, function values
Callees ==
    {SId(n) : n \in {"ov", "add", "idPair", "foo", "Tok", "uint8", "string",
                     "FooEnum", "SFoo", "Boo", "gasleft", "sV"}}
    \cup {SMemberAccess(SId("sBoo"), m) : m \in {"foo", "s", "e", "arr", "a"}}
    \cup {SMemberAccess(SId("this"), "ov"), SMemberAccess(SId("u32a"), "ladd"),
          SMemberAccess(SId("sS"), "len"), SMemberAccess(SId("Lib"), "ladd"),
          SUnaryOperation("old", SId("ov"))}

RootsCall == {SFunctionCall(c, a) : c \in Callees, a \in ArgLists}

\* one function set reached through several nodes
RootsAlias ==
    {SLet(<<"g">>, SId("ov"),
          SBinaryOperation(SFunctionCall(SId("g"), <<a>>), "==", SFunctionCall(SId("g"), <<b>>))) :
        a, b \in {SBooleanLiteral, SId("sha256")}}

Roots == RootsCall \cup RootsAlias

Init == InitWith(Roots, {ContractLevel, InFunction("Foo_add")})

Spec == Init /\ [][Next]_vars

\* identifiers, $result and let-bound names, checked at every site
IdNames ==
    {"this", "uint8", "bool", "address", "bytes", "string", "x", "y", "add", "r",
     "sV", "sV1", "bV", "sS", "GlobalEnum", "now", "sha256", "Tok", "gasleft", "ov",
     "SFoo", "FooEnum", "Boo", "Lib", "msg", "eS", "eArr", "sMissing"}
LetNames == {"x", "sV", "add", "uint8", "this", "now", "Tok", "q"}

RootsId == {SId(n) : n \in IdNames} \cup {SResult}
RootsLet ==
    {SLet(<<n>>, rhs, SId(n)) : n \in LetNames, rhs \in {Num, SBooleanLiteral}}
    \cup {SLet(<<n>>, SBooleanLiteral, SId("x")) : n \in LetNames}
    \cup {SLet(<<"x">>, Num, SLet(<<n>>, SBooleanLiteral, SId("x"))) : n \in {"x", "q"}}
    \cup {SLet(<<"a", n>>, SFunctionCall(SId("idPair"), <<Num, Num>>), SId(n)) :
            n \in {"x", "b"}}

InitNames == InitWith(RootsId \cup RootsLet, BaseCtxs)

SpecNames == InitNames /\ [][Next]_vars

\* arithmetic over literals, integers of both signs and several widths, and
\* operands that are no integers, checked inside function add
ArithOps == {"*", "%", "/", "+", "-"}
ArithLeaves ==
    {Num, SId("x"), SId("y"), SId("sV"), SId("sV1"), SId("sha256"),
     SId("sA"), SId("sB"), SId("sFB32")}
RootsArith ==
    {SBinaryOperation(l, op, r) : l \in ArithLeaves, op \in ArithOps, r \in ArithLeaves}
    \cup {SBinaryOperation(SBinaryOperation(l, "+", Num), op, r) :
            l \in {Num, SId("x")}, op \in ArithOps, r \in ArithLeaves}

InitArith == InitWith(RootsArith, {InFunction("Foo_add")})

SpecArith == InitArith /\ [][Next]_vars

\* exponentiation, shifts, comparisons and conditionals over literals of
\* both signs, integers, addresses, fixed bytes, booleans and strings
NegNum == SNumber(TRUE)
OpsOps == {"**", "<<", ">>", "<", ">", "<=", ">=", "==", "!="}
OpsLeaves ==
    {Num, NegNum, SUnaryOperation("-", Num), SId("x"), SId("y"), SId("sV"), SId("sV1"),
     SId("sA"), SId("sA1"), SId("sB"), SId("sFB32"), SId("sS")}
CondLeaves ==
    {Num, SId("x"), SId("sV1"), SId("y"), SId("sA"), SId("sA1"), SId("sB"), SId("sS"),
     SId("mS"), SStringLiteral}
RootsOps == {SBinaryOperation(l, op, r) : l \in OpsLeaves, op \in OpsOps, r \in OpsLeaves}
RootsCond ==
    {SConditional(c, a, b) : c \in {SId("sB"), SBooleanLiteral, SId("sV")},
                             a \in CondLeaves, b \in CondLeaves}

InitOps ==
    \/ InitWith(RootsOps, {InFunction("Foo_add")})
    \/ InitWith(RootsCond, {InFunction("Foo_add"), InFunction("Foo_foo")})

SpecOps == InitOps /\ [][Next]_vars

\* index accesses into fixed bytes, bytes, arrays, nested arrays, mappings
\* and types that cannot be indexed
IndexBases ==
    {SId("sFB32"), SId("sBy"), SId("mBy"), SId("sUArr"), SId("mUArr"), SId("sNestedArr"),
     SIndexAccess(SId("sNestedArr"), Num), SId("sM"), SId("sMS"), SId("sS"), SId("sV"),
     SId("sA"), SId("sFoo")}
IndexLeaves ==
    {Num, SId("sV"), SId("sV1"), SId("u32a"), SId("sB"), SStringLiteral, SId("sS")}
RootsIndex == {SIndexAccess(b, i) : b \in IndexBases, i \in IndexLeaves}


\* member accesses that no member rule of the base answers, and calls on them
MemberBases ==
    {SId("u32a"), SId("sV"), SId("sB"), SId("sS"), SId("mS"), SId("sUArr"), SId("mUArr"),
     SId("sNestedArr"), SId("sFB32")}
MemberNames == {"ladd", "foo", "len", "nlen", "alen", "length", "nothing"}
RootsMember ==
    {SMemberAccess(b, m) : b \in MemberBases, m \in MemberNames}
    \cup {SFunctionCall(SMemberAccess(b, m), a) :
            b \in MemberBases, m \in MemberNames \ {"length", "nothing"},
            a \in {<<>>, <<Num>>, <<SId("u32a")>>}}

InitAccess == InitWith(RootsIndex \cup RootsMember, {ContractLevel, InFunction("Foo_foo")})

SpecAccess == InitAccess /\ [][Next]_vars

\* let annotations checked from the root, as the driver checks an
\* annotation: one to three names, right-hand sides that are single values,
\* pairs and names the let itself binds, bodies that read the names
LetLhs == {<<"x">>, <<"a", "b">>, <<"a", "x">>, <<"a", "b", "c">>}
LetRhs ==
    {Num, SBooleanLiteral, SId("x"), SId("a"), SId("sV"),
     SFunctionCall(SId("idPair"), <<Num, Num>>)}
LetBodies ==
    {SId("x"), SId("a"), SId("b"), Num,
     SLet(<<"x">>, SId("x"), SId("x")), SLet(<<"b">>, SBooleanLiteral, SId("a"))}
RootsLetForms == {SLet(l, r, b) : l \in LetLhs, r \in LetRhs, b \in LetBodies}

InitLet == InitWith(RootsLetForms, {ContractLevel, InFunction("Foo_add")})

\* tc(parsed, ctx), called on the whole annotation
CheckRoot == Check(<<>>)

NextLet == CheckRoot

SpecLet == InitLet /\ [][NextLet]_vars

\* $result alone, under operators and inside lets, at every site
RootsResult ==
    {SResult, SUnaryOperation("old", SResult), SBinaryOperation(SResult, "==", SResult),
     SConditional(SId("sB"), SResult, Num), SIndexAccess(SResult, Num),
     SMemberAccess(SResult, "length"), SFunctionCall(SId("uint8"), <<SResult>>),
     SLet(<<"q">>, SResult, SId("q")),
     SLet(<<"q">>, SResult, SBinaryOperation(SResult, "==", SId("q")))}
    \cup {SLet(<<n>>, rhs, SResult) : n \in {"q", "x", "r"}, rhs \in {Num, SBooleanLiteral}}

InitResult == InitWith(RootsResult, BaseCtxs)

SpecResult == InitResult /\ [][Next]_vars

\* names of elementary types, in and out of range, as identifiers and as
\* callees of casts; some of them also bound by a let
ElementaryIds ==
    {"bool", "string", "bytes", "byte", "address", "address payable", "uint", "int",
     "uint8", "uint256", "int24", "int128", "bytes3", "bytes32"}
OutOfRangeIds == {"int23", "int264", "uint255", "bytes0", "bytes33"}
NearIds == {"uint08", "bytes01", "addresspayable", "x", "sA", "sMissing"}
TypeIds == ElementaryIds \cup OutOfRangeIds \cup NearIds
RootsTypes ==
    {SId(n) : n \in TypeIds}
    \cup {SFunctionCall(SId(n), <<a>>) : n \in TypeIds, a \in {Num, SId("sA"), SId("sA1")}}
    \cup {SLet(<<n>>, Num, SId(n)) : n \in {"int23", "bytes33", "uint8", "q"}}

InitTypes == InitWith(RootsTypes, {ContractLevel, InFunction("Foo_add")})

SpecTypes == InitTypes /\ [][Next]_vars

\* casts and constructors over argument lists that hold ill-typed arguments
CastCallees == {"uint8", "bytes32", "string", "address", "SFoo", "Boo", "IFace", "FooEnum"}
CastLeaves ==
    {Num, SId("u32a"), SId("sMissing"), SId("sBoo"),
     SFunctionCall(SId("address"), <<Num>>), SFunctionCall(SId("uint8"), <<>>)}
CastLists == {<<>>} \cup {<<a>> : a \in CastLeaves} \cup {<<a, b>> : a, b \in CastLeaves}
RootsCasts == {SFunctionCall(SId(c), l) : c \in CastCallees, l \in CastLists}

InitCasts == InitWith(RootsCasts, {ContractLevel})

SpecCasts == InitCasts /\ [][Next]_vars

\* member access on contract values, struct values and type names
QualBases ==
    {SId(n) : n \in {"sBoo", "this", "sFoo", "sMoo", "Boo", "Foo", "Base", "Lib",
                     "FooEnum", "BooEnum", "GlobalEnum"}}
    \cup {SMemberAccess(SId("Boo"), "BooEnum"), SMemberAccess(SId("Foo"), "FooEnum"),
          SMemberAccess(SId("sMoo"), "foo")}
QualMembers ==
    {"foo", "s", "e", "arr", "a", "str", "balance", "bP", "sV", "add", "ov", "ladd",
     "x", "nothing", "BooEnum", "FooEnum", "SFoo", "BaseS", "GlobalEnum", "Boo", "G", "D"}
RootsQual == {SMemberAccess(b, m) : b \in QualBases, m \in QualMembers}

InitQual == InitWith(RootsQual, {ContractLevel, InFunction("Foo_add")})

SpecQual == InitQual /\ [][Next]_vars

(***************************************************************************)
(* The recursion of tc, one call frame at a time: lets, the identifiers    *)
(* they bind and unary operators push frames; the other nodes are typed in *)
(* one step. `ret` holds the call stack, `arg` the top-level call.         *)
(***************************************************************************)
MaxStack == 6

TermRhs ==
    {Num, SBooleanLiteral, SId("x"), SId("sV"), SUnaryOperation("-", SId("x")), SResult}
TermBodies ==
    {SId("x"), SId("b"), SUnaryOperation("old", SId("x")), SUnaryOperation("!", SId("x")),
     SLet(<<"y">>, SId("x"), SId("y")), SLet(<<"x">>, SId("x"), SId("x"))}
RootsTerm ==
    {SLet(l, r, b) : l \in {<<"x">>, <<"x", "b">>}, r \in TermRhs, b \in TermBodies}
TermSites == {ContractLevel, InFunction("Foo_add"), InFunction("Foo_idPair")}
\* the calls tc(node, ctx, _) that can come up: any node of an annotation in
\* the context of any node of it
TermCalls ==
    UNION {{<<root, node, c \o LetScopes(root, m)>> : node, m \in Paths(root), c \in TermSites} :
              root \in RootsTerm}

\* lookupVarDef(expr.name, ctx) of tcIdVariable, after `this` and the
\* builtin type names: the let binding it finds, if it finds one
LetDefOf ==
    [call \in TermCalls |->
        With(NodeAt(call[1], call[2]), LAMBDA e :
            IF e.k = "SId" /\ e.name # "this" /\ tcIdBuiltinType(e.name) = <<>>
            THEN With(lookupVarDef(e.name, call[3], call[1]), LAMBDA def :
                    IF def.found /\ def.k = "let" THEN def ELSE NotFound)
            ELSE NotFound)]

\* the nodes tc types without a call of itself: literals, $result and the
\* identifiers that no let binds
tcLeaf(node, e, ctx, st) ==
    IF e.k = "SNumber" THEN Ok(st, SIntLiteralType)
    ELSE IF e.k = "SBooleanLiteral" THEN Ok(st, SBoolType)
    ELSE IF e.k = "SResult" THEN tcResult(node, e, ctx, st)
    ELSE tcId(node, e, ctx, st)

IsLeaf(call) ==
    /\ NodeAt(call[1], call[2]).k \in {"SNumber", "SBooleanLiteral", "SResult", "SId"}
    /\ ~LetDefOf[call].found
LeafOf ==
    [call \in {c \in TermCalls : IsLeaf(c)} |->
        With(tcLeaf(call[2], NodeAt(call[1], call[2]), call[3], FreshState(call[1])),
             LAMBDA r : [res |-> r.res, ds |-> r.ds])]

CallFrame(node, ctx, pc) == [node |-> node, ctx |-> ctx, pc |-> pc]
Top == ret.stack[Len(ret.stack)]
StateNow ==
    [root |-> expr, tm |-> typeMap, fs |-> fsets, ds |-> defSite, h |-> hist, ts |-> <<>>,
     res |-> OkRes(NoType)]

\* the frame on top returns or throws with r; a throw unwinds every frame
Leave(r) ==
    /\ typeMap' = r.tm
    /\ fsets' = r.fs
    /\ defSite' = r.ds
    /\ ret' = IF ~r.res.ok THEN [stage |-> "thrown", stack |-> <<>>, val |-> r.res]
              ELSE IF Len(ret.stack) = 1
              THEN [stage |-> "returned", stack |-> <<>>, val |-> r.res]
              ELSE [stage |-> "running", val |-> r.res,
                    stack |-> SubSeq(ret.stack, 1, Len(ret.stack) - 1)]

\* tc(node, ctx, typeMap) is called from the frame on top, which waits at pc.
\* A call stack that is full ends the run: the engine throws a RangeError,
\* which is no diagnostic of the checker, and every frame unwinds.
Enter(pc, node, ctx, ds) ==
    /\ ret' = IF Len(ret.stack) < MaxStack
              THEN [ret EXCEPT !.stack = Append([@ EXCEPT ![Len(@)].pc = pc],
                                                CallFrame(node, ctx, "start"))]
              ELSE [stage |-> "overflow", stack |-> <<>>,
                    val |-> [ok |-> FALSE, type |-> NoType, err |-> "RangeError",
                             expr |-> node, loc |-> node]]
    /\ defSite' = ds
    /\ UNCHANGED <<typeMap, fsets>>

\* a frame starts: the cache is read, then the node's case is taken
TcStart ==
    /\ ret.stage = "running" /\ Top.pc = "start"
    /\ LET f == Top
           e == NodeAt(expr, f.node)
           call == <<expr, f.node, f.ctx>>
       IN  IF cacheHit(StateNow, f.node) THEN Leave(Ok(StateNow, typeMap[f.node]))
           ELSE IF e.k = "SLet" THEN Enter("rhs", f.node \o <<1>>, f.ctx, defSite)
           ELSE IF e.k = "SUnaryOperation" THEN Enter("subexp", f.node \o <<1>>, f.ctx, defSite)
           ELSE IF LetDefOf[call].found
           THEN Enter("letNode.rhs", LetDefOf[call].node \o <<1>>, f.ctx,
                      (f.node :> LetDefOf[call]) @@ defSite)
           ELSE Leave(cache([StateNow EXCEPT !.res = LeafOf[call].res,
                                             !.ds = LeafOf[call].ds @@ defSite], f.node))
    /\ UNCHANGED <<expr, site, hist, outcome, arg>>

\* the call a frame made has returned ret.val: the frame goes on
TcResume ==
    /\ ret.stage = "running" /\ Top.pc # "start"
    /\ LET f == Top
           e == NodeAt(expr, f.node)
           now == StateNow
           T == ret.val.type
       IN  IF f.pc = "rhs" THEN
               IF T.t = "Tuple" /\ Len(e.lhs) # Len(T.elements)
               THEN Leave(Raise(now, "SExprCountMismatch", f.node, f.node, NoType))
               ELSE IF T.t # "Tuple" /\ Len(e.lhs) # 1
               THEN Leave(Raise(now, "SExprCountMismatch", f.node, f.node, NoType))
               ELSE Enter("in", f.node \o <<2>>, Append(f.ctx, LetCtx(f.node)), defSite)
           ELSE IF f.pc = "in" THEN Leave(cache(Ok(now, T), f.node))
           ELSE IF f.pc = "subexp" THEN
               IF e.op = "!"
               THEN IF T.t # "Bool"
                    THEN Leave(Raise(now, "SWrongType", f.node \o <<1>>, f.node \o <<1>>, T))
                    ELSE Leave(cache(Ok(now, SBoolType), f.node))
               ELSE IF e.op = "-" /\ T.t \notin {"IntLiteral", "Int"}
               THEN Leave(Raise(now, "SWrongType", f.node \o <<1>>, f.node \o <<1>>, T))
               ELSE Leave(cache(Ok(now, T), f.node))
           ELSE LET def == LetDefOf[<<expr, f.node, f.ctx>>]
                    lhs == NodeAt(expr, def.node).lhs
                IN  IF Len(lhs) > 1
                    THEN IF ~(T.t = "Tuple" /\ Len(T.elements) = Len(lhs))
                         THEN Leave(Raise(now, "SExprCountMismatch", def.node, def.node, NoType))
                         ELSE Leave(cache(Ok(now, T.elements[def.bindingIdx]), f.node))
                    ELSE Leave(cache(Ok(now, T), f.node))
    /\ UNCHANGED <<expr, site, hist, outcome, arg>>

\* tc(node, ctx, typeMap) from outside, on the cache the earlier calls left;
\* the caller has pushed the let scopes around the node
TcCall(node) ==
    /\ ret.stage # "running"
    /\ arg' = [fn |-> "tc", node |-> node, ctx |-> CtxOf(node)]
    /\ ret' = [stage |-> "running", stack |-> <<CallFrame(node, CtxOf(node), "start")>>,
               val |-> OkRes(NoType)]
    /\ UNCHANGED <<expr, site, typeMap, fsets, defSite, hist, outcome>>

InitTerm == InitWith(RootsTerm, TermSites)

NextTerm == TcStart \/ TcResume \/ \E node \in Paths(expr) : TcCall(node)

\* a call, once made, runs: the checker is synchronous code
SpecTerm == InitTerm /\ [][NextTerm]_vars /\ WF_vars(TcStart \/ TcResume)

(***************************************************************************)
(* The exported pure functions, applied to inputs drawn from bounded sets  *)
(***************************************************************************)
MaxTypeDepth == 2

BaseTypeNames ==
    {Elem("bool"), Elem("address"), Elem("uint8"), Elem("int128"), Elem("bytes4"),
     Elem("bytes"), Elem("string"), UserDefinedTypeName("SFoo"),
     UserDefinedTypeName("FooEnum"), UserDefinedTypeName("Boo")}
KeyTypeNames == {Elem("uint32"), Elem("string")}

\* the host type names of nesting depth at most d
RECURSIVE TypeNames(_)
TypeNames(d) ==
    IF d = 0 THEN BaseTypeNames
    ELSE BaseTypeNames
         \cup {ArrayTypeName(t, len) : t \in TypeNames(d - 1),
                                       len \in {NoLength, LiteralLength(<<"5">>)}}
         \cup {MappingTypeName(k, v) : k \in KeyTypeNames, v \in TypeNames(d - 1)}

LawInputs ==
    {[fn |-> "law", type |-> astTypeNameToSType(tn), loc |-> l] :
        tn \in TypeNames(MaxTypeDepth), l \in DataLocations}

IntTypes == {SIntType(8 * k, sgn) : k \in 1..32, sgn \in BOOLEAN}
CastInputs == {[fn |-> "cast", from |-> a, to |-> b] : a, b \in IntTypes}

\* variable declarations by scope and declared location, with and without baseLoc
LocationInputs ==
    {[fn |-> "location",
      astV |-> VariableDeclaration("v", Elem("string"), declared, scope, "internal"),
      hasBaseLoc |-> has, baseLoc |-> IF has THEN base ELSE "storage"] :
        declared \in {"default"} \cup DataLocations,
        scope \in {ContractScope("Foo"), FunctionScope("f", "public"),
                   FunctionScope("f", "external"), FunctionScope("f", "internal"),
                   StructScope("SFoo")},
        has \in BOOLEAN, base \in DataLocations}

InitPure ==
    /\ arg \in LawInputs \cup CastInputs \cup LocationInputs
    /\ ret = [stage |-> "none"]
    /\ expr = Num
    /\ site = ContractLevel
    /\ typeMap = <<>>
    /\ fsets = <<>>
    /\ defSite = <<>>
    /\ hist = <<>>
    /\ outcome = NoCall

Frame == UNCHANGED <<expr, site, typeMap, fsets, defSite, hist, outcome, arg>>

ApplySpecialize ==
    /\ arg.fn = "law" /\ ret.stage = "none"
    /\ ret' = [stage |-> "specialized", type |-> specializeType(arg.type, arg.loc)]
    /\ Frame

ApplyDespecialize ==
    /\ ret.stage = "specialized"
    /\ ret' = [stage |-> "despecialized", type |-> despecializeType(ret.type)]
    /\ Frame

ApplyCast ==
    /\ arg.fn = "cast" /\ ret.stage = "none"
    /\ ret' = [stage |-> "cast", value |-> isImplicitlyCastable(<<>>, arg.from, arg.to)]
    /\ Frame

ApplyLocation ==
    /\ arg.fn = "location" /\ ret.stage = "none"
    /\ ret' = [stage |-> "location",
               value |-> getVarLocation(arg.astV, arg.hasBaseLoc, arg.baseLoc)]
    /\ Frame

NextPure == ApplySpecialize \/ ApplyDespecialize \/ ApplyCast \/ ApplyLocation

SpecPure == InitPure /\ [][NextPure]_vars

(***************************************************************************)
(* Properties of the pure functions (checked under SpecPure)               *)
(***************************************************************************)

\* C2: generalising a specialised type gives back the general type:
\* despecializeType(specializeType(T, L)) = T for every ingested general
\* type T and every data location L.
C2_RoundTrip ==
    ret.stage = "despecialized" => ret.type = arg.type

\* C5: between two sized integer types, Int(n, s) is implicitly castable to
\* Int(m, t) exactly when the signedness agrees and n <= m.
C5_IntCastable ==
    ret.stage = "cast" =>
        (ret.value <=> (arg.from.signed = arg.to.signed /\ arg.from.nBits <= arg.to.nBits))

C5_Witness ==
    /\ ret.stage = "cast" /\ ret.value
    /\ arg.from.nBits < arg.to.nBits

\* the declaration kinds the location rules speak about
IsDeclared == arg.astV.storageLocation # "default"
IsStateVar == arg.astV.vScope.k = "ContractDefinition"
IsFunParam == arg.astV.vScope.k = "FunctionDefinition"
FunDefaultLoc ==
    IF arg.astV.vScope.visibility = "external" THEN "calldata" ELSE "memory"

IsCall(p) == NodeAt(expr, p).k = "SFunctionCall"
CalleeOf(p) == p \o <<1>>
DefinitionsOf(type, fs) == fs[type.ref].definitions

\* C1 as stated: every successful check of a node returns the same type as
\* the first successful check of that node did.
C1_SameAsFirst ==
    (outcome.called /\ outcome.res.ok) =>
        View(outcome.res.type, fsets) = hist[outcome.node]

\* old and new are views of one function set, new narrowed to one candidate
Narrowed(old, new) ==
    /\ old.t = "FunctionSet" /\ new.t = "FunctionSet"
    /\ old.hasDefaultArg = new.hasDefaultArg
    /\ Len(new.definitions) = 1
    /\ \E i \in 1..Len(old.definitions) : old.definitions[i] = new.definitions[1]

\* C1 (amended): a node that has an entry keeps that very entry for ever, a
\* check of a node with an entry returns the entry, and what the entry
\* denotes changes only by a function set being narrowed to one of its
\* candidates; so the set of nodes with an entry never shrinks.
C1_CacheStable ==
    [][/\ \A n \in DOMAIN typeMap :
            /\ n \in DOMAIN typeMap'
            /\ typeMap'[n] = typeMap[n]
            /\ \/ View(typeMap'[n], fsets') = View(typeMap[n], fsets)
               \/ Narrowed(View(typeMap[n], fsets), View(typeMap'[n], fsets'))
       /\ (outcome'.called /\ outcome'.hit) =>
            /\ outcome'.res.ok
            /\ outcome'.res.type = typeMap[outcome'.node]]_vars

\* an overloaded name is checked again after a call on it chose a candidate
C1_Witness ==
    /\ outcome.called /\ outcome.hit
    /\ hist[outcome.node].t = "FunctionSet"
    /\ Len(hist[outcome.node].definitions) > 1
    /\ Len(DefinitionsOf(typeMap[outcome.node], fsets)) = 1

\* the type a call gets from the definition it selected
ResultOf(def) ==
    IF def.k = "fun"
    THEN LET retTs == getFunDefType(def.id).returns
         IN  IF Len(retTs) = 1 THEN retTs[1] ELSE STupleType(retTs)
    ELSE astVarToSType(def.decl, FALSE, "")

\* C4: every call that has a type and whose callee is a function set finds
\* that set holding exactly one definition, the one whose returns are the
\* call's type.
C4_OverloadUnique ==
    \A p \in DOMAIN typeMap :
        (IsCall(p) /\ typeMap[CalleeOf(p)].t = "FunctionSet") =>
            LET defs == DefinitionsOf(typeMap[CalleeOf(p)], fsets)
            IN  /\ Len(defs) = 1
                /\ typeMap[p] = ResultOf(defs[1])

\* a typed call on a name that had several candidates
C4_Witness ==
    \E p \in DOMAIN typeMap :
        /\ IsCall(p)
        /\ typeMap[CalleeOf(p)].t = "FunctionSet"
        /\ Len(hist[CalleeOf(p)].definitions) > 1

\* the call just made was computed (not a cache hit) on a function set whose
\* arguments all have types
CallOnSet(p) ==
    /\ outcome'.called /\ ~outcome'.hit /\ outcome'.node = p
    /\ IsCall(p)
    /\ CalleeOf(p) \in DOMAIN typeMap'
    /\ typeMap'[CalleeOf(p)].t = "FunctionSet"
    /\ \A i \in 1..Len(NodeAt(expr, p).args) : p \o <<i + 1>> \in DOMAIN typeMap'

\* the candidates the call found: the set as it was before the step
CandidatesOf(p) ==
    IF CalleeOf(p) \in DOMAIN typeMap
    THEN DefinitionsOf(typeMap[CalleeOf(p)], fsets)
    ELSE hist'[CalleeOf(p)].definitions

\* the actual types, the default argument first
ActualsOf(p) ==
    LET obj == fsets'[typeMap'[CalleeOf(p)].ref]
        written == [i \in 1..Len(NodeAt(expr, p).args) |-> typeMap'[p \o <<i + 1>>]]
    IN  IF obj.hasDefaultArg THEN <<typeMap'[obj.defaultArg]>> \o written ELSE written

SurvivesCall(def, p) ==
    IF def.k = "fun"
    THEN LET formals == getFunDefType(def.id).parameters
             actuals == ActualsOf(p)
         IN  /\ Len(formals) = Len(actuals)
             /\ \A i \in 1..Len(formals) : isImplicitlyCastable(<<>>, actuals[i], formals[i])
    ELSE Len(NodeAt(expr, p).args) = 0

SurvivorsOf(p) ==
    {i \in 1..Len(CandidatesOf(p)) : SurvivesCall(CandidatesOf(p)[i], p)}

\* the outcome for one survivor; getterNYI tells whether a getter of a
\* user-defined declared type is refused
OneSurvivor(def, getterNYI) ==
    LET res == outcome'.res
    IN  IF def.k = "fun"
        THEN LET retTs == getFunDefType(def.id).returns
             IN  IF Len(retTs) = 0 THEN ~res.ok /\ res.err = "SFunNoReturn"
                 ELSE IF Len(retTs) = 1 THEN res.ok /\ res.type = retTs[1]
                 ELSE res.ok /\ res.type = STupleType(retTs)
        ELSE IF getterNYI /\ def.decl.vType.k = "UserDefinedTypeName"
             THEN ~res.ok /\ res.err = "Error"
        ELSE res.ok /\ res.type = astVarToSType(def.decl, FALSE, "")

CallOutcome(getterNYI) ==
    \A p \in Paths(expr) :
        CallOnSet(p) =>
            LET n == Cardinality(SurvivorsOf(p))
                res == outcome'.res
            IN  IF n = 0 THEN ~res.ok /\ res.err = "SUnresolvedFun"
                ELSE IF n > 1 THEN ~res.ok /\ res.err = "Error"
                ELSE OneSurvivor(CandidatesOf(p)[CHOOSE i \in SurvivorsOf(p) : TRUE],
                                 getterNYI)

\* C9 as stated: zero survivors raise UnresolvedFun, two or more a fatal
\* internal error, exactly one gives its return type, a Tuple, FunNoReturn,
\* or for a getter the state variable's ingested type.
C9_AsStated == [][CallOutcome(FALSE)]_vars

\* C9 (amended): as stated, except that a surviving getter whose state
\* variable is declared with a user-defined type name raises a fatal
\* internal error instead of giving the ingested type.
C9_CallOutcome == [][CallOutcome(TRUE)]_vars

\* a public state variable of enum type is called as a getter and refused
C9_Witness ==
    /\ outcome.called /\ ~outcome.hit /\ IsCall(outcome.node)
    /\ CalleeOf(outcome.node) \in DOMAIN typeMap
    /\ typeMap[CalleeOf(outcome.node)].t = "FunctionSet"
    /\ LET defs == DefinitionsOf(typeMap[CalleeOf(outcome.node)], fsets)
       IN  /\ Len(defs) = 1
           /\ defs[1].k = "var"
           /\ defs[1].decl.vType.k = "UserDefinedTypeName"
           /\ ~outcome.res.ok /\ outcome.res.err = "Error"

(***************************************************************************)
(* Properties of identifiers and $result (checked under SpecNames)         *)
(***************************************************************************)
IsReferenceType(type) ==
    \/ type.t \in {"Array", "Bytes", "String", "Mapping"}
    \/ type.t = "UserDefined" /\ DefKind(type.definition) \in {"struct", "contract"}

\* reference types sit directly inside a Pointer and nothing else does; a
\* Pointer to a Mapping is a Storage pointer
RECURSIVE WellFormed(_)
WellFormed(type) ==
    IF type.t = "Pointer" THEN
        /\ IsReferenceType(type.to)
        /\ type.location \in DataLocations
        /\ type.to.t = "Mapping" => type.location = "storage"
        /\ type.to.t = "Array" => WellFormed(type.to.elementT)
        /\ type.to.t = "Mapping" =>
              WellFormed(type.to.keyType) /\ WellFormed(type.to.valueType)
    ELSE IF IsReferenceType(type) THEN FALSE
    ELSE IF type.t = "Tuple" THEN
        \A i \in 1..Len(type.elements) : WellFormed(type.elements[i])
    ELSE TRUE

\* C3: every type check returns is well-formed: reference types only
\* directly inside a Pointer, no value type or Tuple inside a Pointer, and
\* every Pointer to a Mapping in Storage.
C3_WellFormed ==
    (outcome.called /\ outcome.res.ok) => WellFormed(outcome.res.type)

\* the identifier check just made, computed rather than read from the map
IdChecked ==
    /\ outcome.called /\ ~outcome.hit
    /\ NodeAt(expr, outcome.node).k = "SId"
IdName == NodeAt(expr, outcome.node).name
IdCtx == CtxOf(outcome.node)
Range(seq) == {seq[i] : i \in 1..Len(seq)}

\* what each scope of the stack declares
Declares(scope, name) ==
    IF scope.k = "let" THEN name \in Range(NodeAt(expr, scope.node).lhs)
    ELSE IF scope.k = "function" THEN
        \E d \in Range(FunDefs[scope.id].vParameters) \cup
                 Range(FunDefs[scope.id].vReturnParameters) : d.name = name
    ELSE IF scope.k = "contract" THEN
        \E b \in Range(Contracts[scope.name].vLinearizedBaseContracts) :
            \E d \in Range(Contracts[b].vStateVariables) : d.name = name
    ELSE FALSE

DeclaringScopes(name, ctx) == {i \in 1..Len(ctx) : Declares(ctx[i], name)}

\* the rule that applies first, in the order the claim gives
FirstRule(name, ctx) ==
    IF name = "this" THEN "this"
    ELSE IF tcIdBuiltinType(name) # <<>> THEN "builtin_type"
    ELSE IF DeclaringScopes(name, ctx) # {} THEN "variable"
    ELSE IF \E id \in DOMAIN FunDefs :
                /\ FunDefs[id].name = name
                /\ FunDefs[id].vScope \in
                       Range(Contracts[ctx[2].name].vLinearizedBaseContracts)
         THEN "function_name"
    ELSE IF resolveTypeDef(ctx, name) # <<>> THEN "type_name"
    ELSE IF name \in DOMAIN BuiltinSymbols THEN "builtin"
    ELSE "none"

\* the type of a variable definition: a declaration, or a let binding
TypeOfDef(def) ==
    IF def.k = "decl" THEN astVarToSType(def.decl, FALSE, "")
    ELSE LET rhsT == typeMap[def.node \o <<1>>]
         IN  IF Len(NodeAt(expr, def.node).lhs) > 1
             THEN rhsT.elements[def.bindingIdx] ELSE rhsT

StampedVariable ==
    /\ outcome.node \in DOMAIN defSite
    /\ "found" \in DOMAIN defSite[outcome.node]

\* C6: an identifier is resolved by the first rule that applies, in the
\* order this, builtin type name, variable, function name, user-defined
\* type name, builtin symbol, and is an UnknownId when none applies.
C6_Precedence ==
    IdChecked =>
        LET rule == FirstRule(IdName, IdCtx)
            res == outcome.res
        IN  /\ rule = "this" =>
                /\ res.ok
                /\ res.type = SPointer(SUserDefinedType("Foo", "Foo"), "storage")
            /\ rule = "builtin_type" => res.ok /\ res.type.t = "BuiltinTypeName"
            /\ rule = "variable" =>
                /\ StampedVariable
                /\ res.ok => res.type = TypeOfDef(defSite[outcome.node])
            /\ rule = "function_name" =>
                /\ res.ok /\ res.type.t = "FunctionSet"
                /\ defSite[outcome.node] = [k |-> "function_name"]
            /\ rule = "type_name" => res.ok /\ res.type.t = "UserDefinedTypeName"
            /\ rule = "builtin" => res.ok /\ res.type = BuiltinSymbols[IdName]
            /\ rule = "none" => ~res.ok /\ res.err = "SUnknownId"

\* the return parameter add inside function add is the variable
C6_Witness ==
    /\ IdChecked /\ IdName = "add"
    /\ site = InFunction("Foo_add")
    /\ outcome.res.ok /\ outcome.res.type = SIntType(64, FALSE)

\* the definition the innermost declaring scope gives
ExpectedDef(name, ctx) ==
    LET scopes == DeclaringScopes(name, ctx)
        scope == ctx[CHOOSE i \in scopes : \A j \in scopes : j <= i]
        named(decls) == SelectSeq(decls, LAMBDA d : d.name = name)
        bases == Contracts[scope.name].vLinearizedBaseContracts
        declaring == {b \in 1..Len(bases) : named(Contracts[bases[b]].vStateVariables) # <<>>}
        lhs == NodeAt(expr, scope.node).lhs
    IN  IF scope.k = "let"
        THEN FoundLet(scope.node, CHOOSE i \in 1..Len(lhs) :
                                     lhs[i] = name /\ \A j \in 1..(i - 1) : lhs[j] # name)
        ELSE IF scope.k = "function"
        THEN IF named(FunDefs[scope.id].vParameters) # <<>>
             THEN FoundDecl(named(FunDefs[scope.id].vParameters)[1])
             ELSE FoundDecl(named(FunDefs[scope.id].vReturnParameters)[1])
        ELSE FoundDecl(named(Contracts[bases[CHOOSE b \in declaring :
                                 \A c \in declaring : b <= c]].vStateVariables)[1])

\* C7: a name that is neither this nor a builtin type is looked up
\* innermost scope first: let bindings shadow what is outside them,
\* parameters come before returns, the first base in linearization order
\* wins, and with no declaring scope the lookup is absent.
C7_InnermostFirst ==
    (IdChecked /\ FirstRule(IdName, IdCtx) \notin {"this", "builtin_type"}) =>
        IF DeclaringScopes(IdName, IdCtx) = {}
        THEN /\ ~StampedVariable
             /\ FirstRule(IdName, IdCtx) = "none" =>
                    ~outcome.res.ok /\ outcome.res.err = "SUnknownId"
        ELSE /\ StampedVariable
             /\ defSite[outcome.node] = ExpectedDef(IdName, IdCtx)
             /\ outcome.res.ok
             /\ outcome.res.type = TypeOfDef(ExpectedDef(IdName, IdCtx))

\* a name declared by a let inside a let inside a function that all declare it
C7_Witness ==
    /\ IdChecked
    /\ Cardinality(DeclaringScopes(IdName, IdCtx)) >= 3
    /\ outcome.res.ok /\ outcome.res.type = SBoolType

(***************************************************************************)
(* Properties of arithmetic (checked under SpecArith)                      *)
(***************************************************************************)
\* the arithmetic node just computed, with both operands typed
ArithChecked ==
    /\ outcome.called /\ ~outcome.hit
    /\ NodeAt(expr, outcome.node).k = "SBinaryOperation"
    /\ NodeAt(expr, outcome.node).op \in ArithOps
    /\ outcome.node \o <<1>> \in DOMAIN typeMap
    /\ outcome.node \o <<2>> \in DOMAIN typeMap
IsIntLike(type) == type.t = "Int" \/ type.t = "IntLiteral"
WiderOf(a, b) == IF a.nBits >= b.nBits THEN a ELSE b

\* C10: for * % / + - an operand that is neither Int nor IntLiteral raises
\* WrongType naming that operand; otherwise two literals give IntLiteral, a
\* literal and an Int give the Int, two Ints of one sign give the wider,
\* and two Ints of different sign raise IncompatibleTypes.
C10_Arithmetic ==
    ArithChecked =>
        LET left == outcome.node \o <<1>>
            right == outcome.node \o <<2>>
            L == typeMap[left]
            R == typeMap[right]
            res == outcome.res
        IN  IF ~IsIntLike(L)
            THEN ~res.ok /\ res.err = "SWrongType" /\ res.expr = left /\ res.type = L
            ELSE IF ~IsIntLike(R)
            THEN ~res.ok /\ res.err = "SWrongType" /\ res.expr = right /\ res.type = R
            ELSE IF L.t = "IntLiteral" /\ R.t = "IntLiteral"
            THEN res.ok /\ res.type = SIntLiteralType
            ELSE IF L.t = "IntLiteral" THEN res.ok /\ res.type = R
            ELSE IF R.t = "IntLiteral" THEN res.ok /\ res.type = L
            ELSE IF L.signed = R.signed THEN res.ok /\ res.type = WiderOf(L, R)
            ELSE ~res.ok /\ res.err = "IncompatibleTypes"

\* a narrower signed integer met a wider one
C10_Witness ==
    /\ ArithChecked
    /\ typeMap[outcome.node \o <<1>>] = SIntType(8, TRUE)
    /\ typeMap[outcome.node \o <<2>>] = SIntType(128, TRUE)
    /\ outcome.res.ok /\ outcome.res.type = SIntType(128, TRUE)


(***************************************************************************)
(* Properties of the other operators (checked under SpecOps)               *)
(***************************************************************************)
\* the binary node of one of the operators ops just computed, with both
\* operands typed
BinChecked(ops) ==
    /\ outcome.called /\ ~outcome.hit
    /\ NodeAt(expr, outcome.node).k = "SBinaryOperation"
    /\ NodeAt(expr, outcome.node).op \in ops
    /\ outcome.node \o <<1>> \in DOMAIN typeMap
    /\ outcome.node \o <<2>> \in DOMAIN typeMap
LeftT == typeMap[outcome.node \o <<1>>]
RightT == typeMap[outcome.node \o <<2>>]
WrongTypeOf(type) == ~outcome.res.ok /\ outcome.res.err = "SWrongType" /\ outcome.res.type = type
Gives(type) == outcome.res.ok /\ outcome.res.type = type

C12_Shift ==
    BinChecked({"<<", ">>"}) =>
        IF ~(IsIntLike(LeftT) \/ LeftT.t = "FixedBytes")
        THEN ~outcome.res.ok /\ outcome.res.err = "SWrongType"
        ELSE IF ~IsIntLike(RightT)
        THEN ~outcome.res.ok /\ outcome.res.err = "SWrongType"
        ELSE IF LeftT.t = "IntLiteral" THEN Gives(RightT)
        ELSE Gives(LeftT)

\* fixed bytes shifted by an unsigned integer stay fixed bytes
C12_Witness ==
    /\ BinChecked({"<<", ">>"})
    /\ LeftT = SFixedBytes(32)
    /\ RightT = SIntType(256, FALSE)
    /\ Gives(SFixedBytes(32))

\* implicit castability as the rules of the type system give it
CastableTo(T, U) ==
    \/ T = U
    \/ T.t = "IntLiteral" /\ U.t = "Int"
    \/ T.t = "StringLiteral" /\ U.t = "Pointer" /\ U.to.t \in {"Bytes", "String"}
    \/ T.t = "Int" /\ U.t = "Int" /\ T.signed = U.signed /\ T.nBits <= U.nBits
    \/ T.t = "Address" /\ U.t = "Address" /\ ~U.payable
    \/ T.t = "Pointer" /\ U.t = "Pointer" /\ T.to = U.to
Unifiable(T, U) == CastableTo(T, U) \/ CastableTo(U, T)
IsOrdered(type) == IsIntLike(type) \/ type.t = "FixedBytes"

CondChecked ==
    /\ outcome.called /\ ~outcome.hit
    /\ NodeAt(expr, outcome.node).k = "SConditional"
    /\ \A i \in 1..3 : outcome.node \o <<i>> \in DOMAIN typeMap

\* C14: a condition that is not Bool raises WrongType naming the condition;
\* otherwise the result is the branch type to which the other branch casts
\* implicitly, and IncompatibleTypes when neither branch casts to the other.
C14_Conditional ==
    CondChecked =>
        LET C == typeMap[outcome.node \o <<1>>]
            A == typeMap[outcome.node \o <<2>>]
            B == typeMap[outcome.node \o <<3>>]
        IN  IF C.t # "Bool"
            THEN WrongTypeOf(C) /\ outcome.res.expr = outcome.node \o <<1>>
            ELSE IF CastableTo(A, B) /\ CastableTo(B, A) THEN Gives(A) \/ Gives(B)
            ELSE IF CastableTo(A, B) THEN Gives(B)
            ELSE IF CastableTo(B, A) THEN Gives(A)
            ELSE ~outcome.res.ok /\ outcome.res.err = "IncompatibleTypes"

\* a payable address against an address gives the address that is not payable
C14_Witness ==
    /\ CondChecked
    /\ typeMap[outcome.node \o <<2>>] = SAddressType(TRUE)
    /\ typeMap[outcome.node \o <<3>>] = SAddressType(FALSE)
    /\ Gives(SAddressType(FALSE))


(***************************************************************************)
(* Properties of index and member access (checked under SpecAccess)        *)
(***************************************************************************)
\* the index access just computed, with base and index typed
IndexChecked ==
    /\ outcome.called /\ ~outcome.hit
    /\ NodeAt(expr, outcome.node).k = "SIndexAccess"
    /\ outcome.node \o <<1>> \in DOMAIN typeMap
    /\ outcome.node \o <<2>> \in DOMAIN typeMap
BadIndex(indexT) == WrongTypeOf(indexT) /\ outcome.res.expr = outcome.node \o <<2>>

\* C15: indexing FixedBytes or a pointer to Bytes with an Int or IntLiteral
\* gives Int(8, unsigned); indexing a pointer to an Array gives the element
\* type, a pointer when the element is a reference type; indexing a pointer
\* to a Mapping with an index castable to the key type gives the value type;
\* a bad index raises WrongType naming the index and any other base raises
\* WrongType.
C15_IndexAccess ==
    IndexChecked =>
        LET B == typeMap[outcome.node \o <<1>>]
            I == typeMap[outcome.node \o <<2>>]
        IN  IF B.t = "FixedBytes" \/ (B.t = "Pointer" /\ B.to.t = "Bytes")
            THEN IF IsIntLike(I) THEN Gives(SIntType(8, FALSE)) ELSE BadIndex(I)
            ELSE IF B.t = "Pointer" /\ B.to.t = "Array"
            THEN IF IsIntLike(I)
                 THEN /\ Gives(B.to.elementT)
                      /\ IsReferenceType(despecializeType(B.to.elementT))
                            => outcome.res.type.t = "Pointer"
                 ELSE BadIndex(I)
            ELSE IF B.t = "Pointer" /\ B.to.t = "Mapping"
            THEN IF CastableTo(I, B.to.keyType) THEN Gives(B.to.valueType) ELSE BadIndex(I)
            ELSE WrongTypeOf(B)

\* a mapping from strings is indexed with a string literal
C15_Witness ==
    /\ IndexChecked
    /\ typeMap[outcome.node \o <<1>>].t = "Pointer"
    /\ typeMap[outcome.node \o <<1>>].to.t = "Mapping"
    /\ typeMap[outcome.node \o <<2>>] = SStringLiteralType
    /\ Gives(SPointer(SArrayType(SIntType(256, FALSE), FALSE, 0), "storage"))


\* the member access just computed, on a base that has a type
MemberChecked ==
    /\ outcome.called /\ ~outcome.hit
    /\ NodeAt(expr, outcome.node).k = "SMemberAccess"
    /\ outcome.node \o <<1>> \in DOMAIN typeMap

\* the declared host type of a value: its type with every location removed
RECURSIVE General(_)
General(type) ==
    IF type.t = "Pointer" THEN General(type.to)
    ELSE IF type.t = "Array"
    THEN SArrayType(General(type.elementT), type.sized, type.size)
    ELSE IF type.t = "Mapping"
    THEN SMappingType(General(type.keyType), General(type.valueType))
    ELSE type

\* a value whose type has no member rule of its own for the member
NoMemberRule(baseT, member) ==
    \/ baseT.t \in {"Int", "Bool", "FixedBytes"}
    \/ /\ baseT.t = "Pointer"
       /\ baseT.to.t \in {"String", "Bytes", "Mapping"}
    \/ /\ baseT.t = "Pointer"
       /\ baseT.to.t = "Array"
       /\ member # "length"

\* the functions named member that the directives of the bases of a
\* contract attach to the host type T
AttachedFuns(contract, T, member) ==
    {FunHandle(f) : f \in
        {g \in DOMAIN FunDefs :
            /\ FunDefs[g].name = member
            /\ \E b \in Range(Contracts[contract].vLinearizedBaseContracts) :
               \E d \in Range(Contracts[b].vUsingForDirectives) :
                  /\ FunDefs[g].vScope = d.vLibraryName
                  /\ (~d.hasType \/ astTypeNameToSType(d.vTypeName) = T)}}

\* the call just computed on an attached function set, all arguments typed
AttachedCallChecked ==
    /\ outcome.called /\ ~outcome.hit
    /\ IsCall(outcome.node)
    /\ CalleeOf(outcome.node) \in DOMAIN typeMap
    /\ typeMap[CalleeOf(outcome.node)].t = "FunctionSet"
    /\ fsets[typeMap[CalleeOf(outcome.node)].ref].hasDefaultArg
    /\ \A i \in 1..Len(NodeAt(expr, outcome.node).args) :
          outcome.node \o <<i + 1>> \in DOMAIN typeMap

\* C16: a member access on a value of host type T that no member rule
\* answers gives the function set of exactly the functions named m of the
\* libraries that a base of the current contract attaches to T or to every
\* type, with the base as default argument, and NoField when there is no
\* such function; a call on the set that has a type chose a function whose
\* first formal accepts the base and whose other formals accept the
\* arguments.
C16_UsingFor ==
    /\ MemberChecked /\ NoMemberRule(typeMap[outcome.node \o <<1>>],
                                     NodeAt(expr, outcome.node).member) =>
        LET funs == AttachedFuns(site[2].name, General(typeMap[outcome.node \o <<1>>]),
                                 NodeAt(expr, outcome.node).member)
        IN  IF funs # {}
            THEN /\ outcome.res.ok
                 /\ outcome.res.type.t = "FunctionSet"
                 /\ Range(fsets[outcome.res.type.ref].definitions) = funs
                 /\ Len(fsets[outcome.res.type.ref].definitions) = Cardinality(funs)
                 /\ fsets[outcome.res.type.ref].hasDefaultArg
                 /\ fsets[outcome.res.type.ref].defaultArg = outcome.node \o <<1>>
            ELSE ~outcome.res.ok /\ outcome.res.err = "SNoField"
    /\ (AttachedCallChecked /\ outcome.res.ok) =>
        LET set == fsets[typeMap[CalleeOf(outcome.node)].ref]
            formals == getFunDefType(set.definitions[1].id).parameters
            args == NodeAt(expr, outcome.node).args
        IN  /\ Len(set.definitions) = 1
            /\ Len(formals) = Len(args) + 1
            /\ CastableTo(typeMap[set.defaultArg], formals[1])
            /\ \A i \in 1..Len(args) :
                  CastableTo(typeMap[outcome.node \o <<i + 1>>], formals[i + 1])


(***************************************************************************)
(* Properties of let (checked under SpecLet)                               *)
(***************************************************************************)
\* the let at the root just computed, with its right-hand side typed
LetChecked ==
    /\ outcome.called /\ ~outcome.hit
    /\ outcome.node = <<>>
    /\ expr.k = "SLet"
    /\ <<1>> \in DOMAIN typeMap
\* the number of names fits the type of the right-hand side
ArityFits(lhs, rhsT) ==
    IF rhsT.t = "Tuple" THEN Len(rhsT.elements) = Len(lhs) ELSE Len(lhs) = 1
\* the type a let gives the first of its names that is name
BoundType(lhs, rhsT, name) ==
    IF Len(lhs) = 1 THEN rhsT
    ELSE rhsT.elements[CHOOSE i \in 1..Len(lhs) :
                          lhs[i] = name /\ \A j \in 1..(i - 1) : lhs[j] # name]
\* the lets around a node, innermost last
LetsAround(p) ==
    SelectSeq([i \in 1..Len(p) |-> SubSeq(p, 1, i - 1)],
              LAMBDA q : NodeAt(expr, q).k = "SLet" /\ p[Len(q) + 1] = 2)
\* the innermost let around p that binds name, or <<>> when no let does
BinderOf(p, name) ==
    SelectSeq(LetsAround(p), LAMBDA q :
        /\ name \in Range(NodeAt(expr, q).lhs)
        /\ \A r \in Range(LetsAround(p)) :
              (Len(r) > Len(q)) => name \notin Range(NodeAt(expr, r).lhs))

\* C17: a let raises ExprCountMismatch unless its right-hand side is a
\* Tuple with as many elements as there are names, or is no Tuple and there
\* is one name; otherwise its type is the type of its body, a name read in
\* the body has the type of its tuple element (of the right-hand side when
\* there is one name) under the innermost let that binds it, and a name read
\* in the right-hand side is resolved outside the let.
C17_Let ==
    /\ (/\ outcome.called /\ ~outcome.hit /\ expr.k = "SLet" /\ expr.rhs.k = "SId"
        /\ expr.rhs.name \in Range(expr.lhs)
        /\ FirstRule(expr.rhs.name, site) = "none") =>
            ~outcome.res.ok /\ outcome.res.err = "SUnknownId"
    /\ LetChecked =>
        /\ IF ~ArityFits(expr.lhs, typeMap[<<1>>])
           THEN ~outcome.res.ok /\ outcome.res.err = "SExprCountMismatch"
                /\ outcome.res.expr = <<>>
           ELSE IF <<2>> \in DOMAIN typeMap
           THEN outcome.res.ok /\ outcome.res.type = typeMap[<<2>>]
           ELSE ~outcome.res.ok
        /\ \A p \in DOMAIN typeMap :
              NodeAt(expr, p).k = "SId" =>
                LET binder == BinderOf(p, NodeAt(expr, p).name)
                IN  binder # <<>> =>
                        typeMap[p] = BoundType(NodeAt(expr, binder[1]).lhs,
                                               typeMap[binder[1] \o <<1>>],
                                               NodeAt(expr, p).name)
        /\ (expr.rhs.k = "SId" /\ expr.rhs.name \in Range(expr.lhs)
              /\ DeclaringScopes(expr.rhs.name, site) # {}) =>
                typeMap[<<1>>] = TypeOfDef(ExpectedDef(expr.rhs.name, site))

\* the second name of a pair, which is also a parameter, read in the body
C17_Witness ==
    /\ LetChecked
    /\ site = InFunction("Foo_add")
    /\ expr.lhs = <<"a", "x">>
    /\ typeMap[<<1>>].t = "Tuple"
    /\ expr.body = SId("x")
    /\ outcome.res.ok /\ outcome.res.type = SIntType(256, FALSE)


(***************************************************************************)
(* Properties of $result (checked under SpecResult)                        *)
(***************************************************************************)
\* the $result node just computed
ResultChecked ==
    /\ outcome.called /\ ~outcome.hit
    /\ NodeAt(expr, outcome.node).k = "SResult"
\* the node lies in no let body and the annotation is one of a function
InFunctionScope == LetsAround(outcome.node) = <<>> /\ Len(site) = 3
ReturnsOf(id) == FunDefs[id].vReturnParameters

WidthOf ==
    [uint8 |-> 8, uint256 |-> 256, int24 |-> 24, int128 |-> 128, int23 |-> 23,
     int264 |-> 264, uint255 |-> 255, bytes3 |-> 3, bytes32 |-> 32, bytes0 |-> 0,
     bytes33 |-> 33]
SizedInts == {"uint8", "uint256", "int24", "int128", "int23", "int264", "uint255"}
SizedBytes == {"bytes3", "bytes32", "bytes0", "bytes33"}

\* the valid elementary names, by the rule of the claim
ValidElementary(name) ==
    \/ name \in {"bool", "string", "bytes", "byte", "address", "address payable",
                 "uint", "int"}
    \/ /\ name \in SizedInts
       /\ WidthOf[name] % 8 = 0 /\ 8 <= WidthOf[name] /\ WidthOf[name] <= 256
    \/ /\ name \in SizedBytes
       /\ 1 <= WidthOf[name] /\ WidthOf[name] <= 32

\* the name is declared some other way: a variable, a function, a
\* user-defined type or a builtin symbol
DeclaredOtherwise(name, ctx) ==
    \/ DeclaringScopes(name, ctx) # {}
    \/ \E id \in DOMAIN FunDefs :
           /\ FunDefs[id].name = name
           /\ FunDefs[id].vScope \in Range(Contracts[ctx[2].name].vLinearizedBaseContracts)
    \/ resolveTypeDef(ctx, name) # <<>>
    \/ name \in DOMAIN BuiltinSymbols

IsTypeName(res) == res.ok /\ res.type.t = "BuiltinTypeName"

\* C19: an identifier is typed as a builtin type name exactly when it is a
\* valid elementary name: (u)intN with N absent or a multiple of 8 from 8
\* to 256, bytesN with N from 1 to 32, bool, string, bytes, byte, address,
\* address payable; any other name, out-of-range ones included, is not a
\* builtin type and is an UnknownId unless it is declared some other way.
C19_Detection ==
    (IdChecked /\ IdName # "this") =>
        IF ValidElementary(IdName) THEN IsTypeName(outcome.res)
        ELSE /\ ~IsTypeName(outcome.res)
             /\ ~DeclaredOtherwise(IdName, IdCtx) =>
                    ~outcome.res.ok /\ outcome.res.err = "SUnknownId"

(***************************************************************************)
(* C20: address types, detected and ingested                               *)
(***************************************************************************)
\* what ingestion gives for the host types address and address payable
IngestedAddress == astTypeNameToSType(Elem("address"))
IngestedAddressPayable == astTypeNameToSType(ElementaryTypeName("address", "payable"))

AddressCastChecked ==
    /\ outcome.called /\ ~outcome.hit
    /\ NodeAt(expr, outcome.node).k = "SFunctionCall"
    /\ NodeAt(expr, outcome.node \o <<1>>) = SId("address")

\* C20: the identifier address has type BuiltinTypeName(Address(payable =
\* false)) and address payable has BuiltinTypeName(Address(payable = true)),
\* the Address variants ingestion gives for the host types of these names;
\* so the cast address(x) yields a non-payable address.
C20_Address ==
    /\ (IdChecked /\ IdName = "address") =>
           /\ Gives(SBuiltinTypeNameType(SAddressType(FALSE)))
           /\ outcome.res.type.type = IngestedAddress
    /\ (IdChecked /\ IdName = "address payable") =>
           /\ Gives(SBuiltinTypeNameType(SAddressType(TRUE)))
           /\ outcome.res.type.type = IngestedAddressPayable
    /\ AddressCastChecked => Gives(SAddressType(FALSE))

(***************************************************************************)
(* C21: casts and constructors                                             *)
(***************************************************************************)
\* the call just checked, computed rather than read from the map, has a
\* callee that is a type name
CastChecked ==
    /\ outcome.called /\ ~outcome.hit
    /\ NodeAt(expr, outcome.node).k = "SFunctionCall"
    /\ outcome.node \o <<1>> \in DOMAIN typeMap
    /\ typeMap[outcome.node \o <<1>>].t \in {"BuiltinTypeName", "UserDefinedTypeName"}
CastTarget == typeMap[outcome.node \o <<1>>]
CastArgs ==
    [i \in 1..Len(NodeAt(expr, outcome.node).args) |-> outcome.node \o <<i + 1>>]
\* arguments without an entry after the call: the first of them threw
UntypedArgs == {i \in 1..Len(CastArgs) : CastArgs[i] \notin DOMAIN typeMap}
CountMismatch ==
    /\ ~outcome.res.ok /\ outcome.res.err = "SExprCountMismatch"
    /\ outcome.res.expr = outcome.node
PointerTo(def, loc) ==
    SPointer(SUserDefinedType(IF UserDefs[def].vScope.k = "ContractDefinition"
                              THEN UserDefs[def].vScope.name \o "." \o def ELSE def,
                              def), loc)

\* C21: a call whose callee is a builtin type name or a contract needs one
\* argument, else ExprCountMismatch; the arguments are checked, cached and
\* their errors raised before the count is tested; a builtin cast returns
\* the target type, a contract cast a storage pointer to the contract, and
\* a struct constructor a memory pointer to the struct for any number of
\* arguments.
C21_Casts ==
    CastChecked =>
        IF UntypedArgs # {}
        THEN LET i == CHOOSE j \in UntypedArgs : \A k \in UntypedArgs : j <= k
             IN  ~outcome.res.ok /\ outcome.res.expr = CastArgs[i]
        ELSE IF CastTarget.t = "BuiltinTypeName"
             THEN IF Len(CastArgs) # 1 THEN CountMismatch ELSE Gives(CastTarget.type)
        ELSE IF UserDefs[CastTarget.definition].kind = "struct"
             THEN Gives(PointerTo(CastTarget.definition, "memory"))
        ELSE IF UserDefs[CastTarget.definition].kind = "contract"
             THEN IF Len(CastArgs) # 1 THEN CountMismatch
                  ELSE Gives(PointerTo(CastTarget.definition, "storage"))
        ELSE TRUE
C21_Witness ==
    /\ CastChecked /\ UntypedArgs = {} /\ Len(CastArgs) = 2
    /\ CastTarget.t = "UserDefinedTypeName"
    /\ UserDefs[CastTarget.definition].kind = "struct"
    /\ outcome.res.ok

(***************************************************************************)
(* C22: members of contract values                                         *)
(***************************************************************************)
MemberBaseT == typeMap[outcome.node \o <<1>>]
MemberName == NodeAt(expr, outcome.node).member
ContractMemberChecked ==
    /\ MemberChecked
    /\ MemberBaseT.t = "Pointer" /\ MemberBaseT.to.t = "UserDefined"
    /\ UserDefs[MemberBaseT.to.definition].kind = "contract"
BasesOf(contract) == Range(Contracts[contract].vLinearizedBaseContracts)
\* the functions named m that a contract has, its own and inherited
FunsNamed(contract, m) ==
    {FunHandle(g) : g \in {f \in DOMAIN FunDefs :
                             FunDefs[f].name = m /\ FunDefs[f].vScope \in BasesOf(contract)}}
\* the public state variables named m that a contract has
PublicVarsNamed(contract, m) ==
    {v \in UNION {Range(Contracts[b].vStateVariables) : b \in BasesOf(contract)} :
        v.name = m /\ v.visibility = "public"}
GivesSet(handles) ==
    /\ outcome.res.ok /\ outcome.res.type.t = "FunctionSet"
    /\ Range(fsets[outcome.res.type.ref].definitions) = handles
    /\ Len(fsets[outcome.res.type.ref].definitions) = Cardinality(handles)
    /\ ~fsets[outcome.res.type.ref].hasDefaultArg
NoFieldHere ==
    /\ ~outcome.res.ok /\ outcome.res.err = "SNoField"
    /\ outcome.res.expr = outcome.node

\* C22: c.m on a contract-typed value is the set of all functions of the
\* contract named m; else the getter of a public state variable named m,
\* a set holding only that variable; else the address member m; else
\* NoField. A state variable that is not public is never the result.
C22_ContractMember ==
    ContractMemberChecked =>
        LET C == MemberBaseT.to.definition
            m == MemberName
        IN  /\ IF FunsNamed(C, m) # {} THEN GivesSet(FunsNamed(C, m))
               ELSE IF PublicVarsNamed(C, m) # {}
                    THEN \E v \in PublicVarsNamed(C, m) : GivesSet({VarHandle(v)})
               ELSE IF m \in DOMAIN BuiltinAddressMembers
                    THEN Gives(BuiltinAddressMembers[m])
               ELSE NoFieldHere
            /\ (outcome.res.ok /\ outcome.res.type.t = "FunctionSet") =>
                   \A d \in Range(fsets[outcome.res.type.ref].definitions) :
                       d.k = "var" => d.decl.visibility = "public"

(***************************************************************************)
(* C23: qualified type names                                               *)
(***************************************************************************)
TypeMemberChecked ==
    /\ MemberChecked
    /\ MemberBaseT.t = "UserDefinedTypeName"
    /\ UserDefs[MemberBaseT.definition].kind = "contract"
\* the structs and enums named m nested in a contract or in a base of it
NestedIn(contract, m) ==
    {d \in DOMAIN UserDefs :
        /\ UserDefs[d].name = m
        /\ UserDefs[d].kind \in {"struct", "enum"}
        /\ UserDefs[d].vScope.k = "ContractDefinition"
        /\ UserDefs[d].vScope.name \in BasesOf(contract)}
IsUserTypeName(res) == res.ok /\ res.type.t = "UserDefinedTypeName"

\* C23: for a contract type name C, C.m is a type name only when m is a
\* struct or enum nested in C or in a base of C, and otherwise the set of
\* C's functions named m; a top-level struct, enum or contract that is not
\* nested in C is not reached as C.m, and an enum nested in another
\* contract is not reached unqualified: BooEnum fails in Foo while
\* Boo.BooEnum.G succeeds.
C23_Qualified ==
    /\ TypeMemberChecked =>
           LET C == MemberBaseT.definition
               m == MemberName
           IN  IF NestedIn(C, m) # {}
               THEN IsUserTypeName(outcome.res) /\ outcome.res.type.definition \in NestedIn(C, m)
               ELSE /\ ~IsUserTypeName(outcome.res)
                    /\ FunsNamed(C, m) # {} => GivesSet(FunsNamed(C, m))
    /\ (IdChecked /\ IdName = "BooEnum") =>
           ~outcome.res.ok /\ outcome.res.err = "SUnknownId"
    /\ (MemberChecked /\ MemberBaseT = SUserDefinedTypeNameType("BooEnum") /\ MemberName = "G") =>
           Gives(SUserDefinedType("Boo.BooEnum", "BooEnum"))

(***************************************************************************)
(* C24: what a WrongType diagnostic names                                  *)
(***************************************************************************)
WrongTypeRaised ==
    /\ outcome.called /\ ~outcome.hit
    /\ ~outcome.res.ok /\ outcome.res.err = "SWrongType"

\* C24: a WrongType diagnostic stores the subexpression whose checked type
\* is the type it stores, and reports that subexpression's range; for a
\* binary operator with an ill-typed left operand this is the left operand.
C24_WrongTypeNames ==
    WrongTypeRaised =>
        /\ outcome.res.expr \in DOMAIN typeMap
        /\ typeMap[outcome.res.expr] = outcome.res.type
        /\ outcome.res.loc = outcome.res.expr

(***************************************************************************)
(* C25: `using for` on struct values                                       *)
(***************************************************************************)
StructMemberChecked ==
    /\ MemberChecked
    /\ MemberBaseT.t = "Pointer" /\ MemberBaseT.to.t = "UserDefined"
    /\ UserDefs[MemberBaseT.to.definition].kind = "struct"
IsField(struct, m) ==
    \E i \in 1..Len(StructMembers[struct]) : StructMembers[struct][i].name = m

\* C25: for a struct value and a member that is not a field of the struct
\* the `using for` directives of the current contract are consulted: the
\* result is the set of the attached functions of that name, with the base
\* as default argument, and NoField only when there is none.
C25_StructUsingFor ==
    (StructMemberChecked /\ ~IsField(MemberBaseT.to.definition, MemberName)) =>
        LET funs == AttachedFuns(site[2].name, General(MemberBaseT), MemberName)
        IN  IF funs # {}
            THEN /\ outcome.res.ok /\ outcome.res.type.t = "FunctionSet"
                 /\ Range(fsets[outcome.res.type.ref].definitions) = funs
                 /\ fsets[outcome.res.type.ref].hasDefaultArg
                 /\ fsets[outcome.res.type.ref].defaultArg = outcome.node \o <<1>>
            ELSE ~outcome.res.ok /\ outcome.res.err = "SNoField"

(***************************************************************************)
(* C26: the cache is written once per node                                 *)
(***************************************************************************)
IsPrefix(p, q) == Len(p) <= Len(q) /\ SubSeq(q, 1, Len(p)) = p

\* C26 as stated: an entry, once written, stays, and the type it records
\* is not modified by later checks of other nodes, the entry of the callee
\* of a call checked later included.
C26_WriteOnce ==
    [][\A n \in DOMAIN typeMap :
          /\ n \in DOMAIN typeMap'
          /\ View(typeMap'[n], fsets') = View(typeMap[n], fsets)]_vars

\* the step computed a call whose callee denotes the function set that the
\* entry of n denotes
CallOnSetOf(n) ==
    \E c \in Paths(expr) :
        /\ IsCall(c) /\ c \notin DOMAIN typeMap
        /\ IsPrefix(outcome'.node, c)
        /\ CalleeOf(c) \in DOMAIN typeMap'
        /\ typeMap'[CalleeOf(c)] = typeMap[n]

\* C26 (amended): no entry is ever written a second time or removed, and
\* the type an entry records is modified in one case only: the step checks
\* a call whose callee denotes the same function set, and the set is
\* narrowed to one of its candidates.
C26_WriteOnceButNarrowing ==
    [][\A n \in DOMAIN typeMap :
          /\ n \in DOMAIN typeMap'
          /\ typeMap'[n] = typeMap[n]
          /\ View(typeMap'[n], fsets') # View(typeMap[n], fsets) =>
                /\ CallOnSetOf(n)
                /\ Narrowed(View(typeMap[n], fsets), View(typeMap'[n], fsets'))]_vars

\* a call was computed and left the entry of its callee, which recorded
\* several candidates, holding one
C26_Witness ==
    /\ outcome.called /\ ~outcome.hit /\ outcome.res.ok
    /\ IsCall(outcome.node)
    /\ CalleeOf(outcome.node) \in DOMAIN hist
    /\ hist[CalleeOf(outcome.node)].t = "FunctionSet"
    /\ Len(hist[CalleeOf(outcome.node)].definitions) > 1
    /\ Len(DefinitionsOf(typeMap[CalleeOf(outcome.node)], fsets)) = 1

(***************************************************************************)
(* C27: termination                                                        *)
(***************************************************************************)
\* C27: every call of check, in every context the caller may build, let
\* scopes it pushed included, and on every cache, returns a type or raises
\* an error of the checker; it does not recurse until the call stack is
\* exhausted.
C27_Termination ==
    (ret.stage = "running") ~> (ret.stage \in {"returned", "thrown"})

(***************************************************************************)
(* C28: abort on error                                                     *)
(***************************************************************************)
CheckRaised == outcome'.called /\ ~outcome'.res.ok

\* the node whose case raised: the node the diagnostic stores, or the
\* parent of it when the diagnostic stores an operand that was typed
FailingNode ==
    LET e == outcome'.res.expr
    IN  IF e \in DOMAIN typeMap' /\ Len(e) > 0 THEN SubSeq(e, 1, Len(e) - 1) ELSE e

\* the failing node and its ancestors up to the node of the call
FailingPath ==
    {outcome'.node} \cup
    {p \in Paths(expr) : IsPrefix(outcome'.node, p) /\ IsPrefix(p, FailingNode)}

NoEntryOnFailingPath == \A p \in FailingPath : p \in DOMAIN typeMap' => p \in DOMAIN typeMap

\* C28 as stated: when a check raises, the map has gained no entry for
\* the failing node or any ancestor of it up to the checked node, and every
\* entry it had is still there with the same type as before.
C28_Abort ==
    [][CheckRaised =>
          /\ NoEntryOnFailingPath
          /\ \A n \in DOMAIN typeMap :
                /\ n \in DOMAIN typeMap'
                /\ View(typeMap'[n], fsets') = View(typeMap[n], fsets)]_vars

\* C28 (amended): when a check raises, the map has gained no entry for the
\* failing node or any ancestor of it up to the checked node, and every
\* entry it had is still there and records the same type object; the type
\* differs from before in one case only: a call in the checked expression
\* resolved its overload before the error, and the function set of its
\* callee is narrowed to one of its candidates.
C28_AbortButNarrowing ==
    [][CheckRaised =>
          /\ NoEntryOnFailingPath
          /\ \A n \in DOMAIN typeMap :
                /\ n \in DOMAIN typeMap'
                /\ typeMap'[n] = typeMap[n]
                /\ View(typeMap'[n], fsets') # View(typeMap[n], fsets) =>
                      /\ CallOnSetOf(n)
                      /\ Narrowed(View(typeMap[n], fsets), View(typeMap'[n], fsets'))]_vars

\* a call raised FunNoReturn after its overload was resolved: the entry of
\* its callee, which recorded several candidates, holds one, and the call
\* has no entry
C28_Witness ==
    /\ outcome.called /\ ~outcome.res.ok /\ outcome.res.err = "SFunNoReturn"
    /\ IsCall(outcome.node) /\ outcome.node \notin DOMAIN typeMap
    /\ CalleeOf(outcome.node) \in DOMAIN hist
    /\ hist[CalleeOf(outcome.node)].t = "FunctionSet"
    /\ Len(hist[CalleeOf(outcome.node)].definitions) > 1
    /\ Len(DefinitionsOf(typeMap[CalleeOf(outcome.node)], fsets)) = 1

(***************************************************************************)
(* C29: unification and the order of the operands                          *)
(***************************************************************************)
\* a conditional, or an arithmetic or bitwise operation, was computed and
\* got the type that unifyTypes gave for its two operands
UnifyChecked ==
    /\ outcome.called /\ ~outcome.hit /\ outcome.res.ok
    /\ LET e == NodeAt(expr, outcome.node)
       IN  \/ e.k = "SConditional"
           \/ e.k = "SBinaryOperation" /\ e.op \in ArithOps \cup {"|", "&", "^"}
UnifiedA ==
    outcome.node \o (IF NodeAt(expr, outcome.node).k = "SConditional" THEN <<2>> ELSE <<1>>)
UnifiedB ==
    outcome.node \o (IF NodeAt(expr, outcome.node).k = "SConditional" THEN <<3>> ELSE <<2>>)
\* unifyTypes(exprB, typeB, exprA, typeA): the operands the other way round
UnifySwapped ==
    unifyTypes(StateNow, UnifiedB, typeMap[UnifiedB], UnifiedA, typeMap[UnifiedA],
               outcome.node).res

\* C29: when the unification of two operands succeeds, the unification of
\* the same operands in the other order succeeds with a structurally equal
\* type, two pointers to one type in different data locations included.
C29_UnifyOrder ==
    UnifyChecked =>
        /\ UnifySwapped.ok
        /\ eq(UnifySwapped.type, outcome.res.type)
====
